---- MODULE Spec2Model ----
(***************************************************************************)
(* A model of mechanize_mini (src/src/mechanize_mini.py): the HtmlElement  *)
(* tree, the tree-building HTML parser with its misnesting recovery, the   *)
(* serialiser, and the form accessors.                                     *)
(*                                                                         *)
(* Objects live in `heap`: a sequence of HtmlElement records, an element's *)
(* identity being its index.  Strings of character data are sequences of   *)
(* one-character strings.  An exception that leaves an operation is        *)
(* recorded in `raised`.                                                    *)
(***************************************************************************)
EXTENDS Integers, Sequences, FiniteSets, TLC

VARIABLES
    heap,           \* the HtmlElement objects: tag, attrib, text, tail, _children, _backend
    element_stack,  \* _TreeBuildingHTMLParser.element_stack (element ids, root first)
    format_stack,   \* _TreeBuildingHTMLParser.format_stack ((tag, attrs) pairs)
    raised,         \* the exception the last operation raised, "" when it returned
    result,         \* the value the last operation returned
    phase,          \* "feed" while tokens arrive, "done" once finish() has run
    log,            \* history: the tokens fed, or the calls made, so far
    consumed        \* history: per character-data token, its data and the format stack's tags then

vars == <<heap, element_stack, format_stack, raised, result, phase, log, consumed>>

(***************************************************************************)
(* Bounds of the model.                                                    *)
(***************************************************************************)
MaxTokens == 5

MaxDocTokens == 4

(***************************************************************************)
(* Helpers on sequences and strings.                                       *)
(***************************************************************************)
Range(s) == {s[i] : i \in DOMAIN s}

Last(s) == s[Len(s)]

Front(s) == SubSeq(s, 1, Len(s) - 1)

\* list.remove(x): drops the first occurrence of x
RemoveFirst(s, x) ==
    LET i == CHOOSE k \in DOMAIN s : s[k] = x /\ \A j \in 1..(k - 1) : s[j] # x
    IN  SubSeq(s, 1, i - 1) \o SubSeq(s, i + 1, Len(s))

None == "None"

NoAttrs == <<>>

\* str.casefold() on the attribute names and tag names the model uses; "U+AB70"
\* and "U+13A0" stand for the one-letter names CHEROKEE SMALL LETTER A and
\* CHEROKEE LETTER A, which case folding maps to the capital letter
Casefold(k) ==
    CASE k = "ID" -> "id"
      [] k = "DIV" -> "div"
      [] k = "Name" -> "name"
      [] k = "VALUE" -> "value"
      [] k = "U+AB70" -> "U+13A0"
      [] OTHER -> k

\* str.strip() == '': the characters Python treats as whitespace
Whitespace == {" ", "\n", "\t", "\r", "\f"}

IsBlank(s) == \A i \in DOMAIN s : s[i] \in Whitespace

(***************************************************************************)
(* HtmlElement.                                                            *)
(***************************************************************************)
\* a dict built from a list of (key, value) pairs: the last pair of a key wins
DictOf(pairs) ==
    [k \in {p[1] : p \in Range(pairs)} |->
        LET i == CHOOSE j \in DOMAIN pairs :
                    pairs[j][1] = k /\ \A m \in (j + 1)..Len(pairs) : pairs[m][1] # k
        IN  pairs[i][2]]

\* the (key, value) pairs of a dict, as a set
Items(d) == {<<k, d[k]>> : k \in DOMAIN d}

\* self.attrib[key.casefold()] = val for every item of a dict
CasefoldKeys(d) ==
    [k \in {Casefold(j) : j \in DOMAIN d} |->
        LET j == CHOOSE m \in DOMAIN d : Casefold(m) = k IN d[j]]

HtmlElement(tag, attrib, backend) ==
    [tag |-> tag, attrib |-> CasefoldKeys(attrib), text |-> <<>>, tail |-> <<>>,
     children |-> <<>>, backend |-> backend]

\* HtmlElement.get
Get(el, key) == IF Casefold(key) \in DOMAIN el.attrib THEN el.attrib[Casefold(key)] ELSE None

\* a variant of set that stores the key as given
SetAttr_NoFold(el, key, value) ==
    [el EXCEPT !.attrib =
        [k \in DOMAIN el.attrib \cup {key} |-> IF k = key THEN value ELSE el.attrib[k]]]

\* HtmlElement.set
SetAttr(el, key, value) ==
    [el EXCEPT !.attrib =
        [k \in DOMAIN el.attrib \cup {Casefold(key)} |->
            IF k = Casefold(key) THEN value ELSE el.attrib[k]]]

\* del self.attrib[key]
DelAttr(el, key) ==
    [el EXCEPT !.attrib = [k \in DOMAIN el.attrib \ {key} |-> el.attrib[k]]]

(***************************************************************************)
(* _TreeBuildingHTMLParser: the tag classes.                               *)
(***************************************************************************)
default_scope_els == {"applet", "caption", "table", "marquee", "object", "template"}

list_scope_els == default_scope_els \cup {"ol", "ul"}

block_openers ==
    {"address", "article", "aside", "blockquote", "center", "details", "dialog",
     "dir", "div", "dl", "fieldset", "figcaption", "figure", "footer", "header",
     "hgroup", "main", "menu", "nav", "ol", "p", "section", "summary", "ul",
     "h1", "h2", "h3", "h4", "h5", "h6", "pre", "listing", "form"}

block_scope_els == default_scope_els \cup {"button"} \cup block_openers

formatting_els ==
    {"b", "big", "code", "em", "font", "i", "s", "small", "strike", "strong",
     "tt", "u", "a"}

void_els ==
    {"area", "br", "embed", "img", "keygen", "wbr", "input", "param", "source",
     "track", "hr", "image", "base", "basefont", "bgsound", "link", "meta", "col",
     "frame", "menuitem"}

(***************************************************************************)
(* The parser as functions of its state P = [heap, element_stack,          *)
(* format_stack, raised].                                                  *)
(***************************************************************************)
ParserState(h, es, fs, r) ==
    [heap |-> h, element_stack |-> es, format_stack |-> fs, raised |-> r]

\* _TreeBuildingHTMLParser.__init__
NewParser == ParserState(<<HtmlElement("html", NoAttrs, None)>>, <<1>>, <<>>, "")

Raise(P, exc) == [P EXCEPT !.raised = exc]

TopOf(P) == Last(P.element_stack)

TagAt(P, i) == P.heap[P.element_stack[i]].tag

StackTags(P) == {TagAt(P, i) : i \in DOMAIN P.element_stack}

Pop(P) == [P EXCEPT !.element_stack = Front(P.element_stack)]

RECURSIVE has_in_scope_from(_, _, _, _)
has_in_scope_from(P, i, tag, scope_els) ==
    IF i = 0 THEN FALSE
    ELSE IF TagAt(P, i) = tag THEN TRUE
    ELSE IF TagAt(P, i) \in scope_els THEN FALSE
    ELSE has_in_scope_from(P, i - 1, tag, scope_els)

has_in_scope(P, tag, scope_els) ==
    has_in_scope_from(P, Len(P.element_stack), tag, scope_els)

\* HtmlElement.append: the child joins the end of the parent's child list
AppendChild(h, parent, child) ==
    [h EXCEPT ![parent].children = Append(@, child)]

open_tag(P, tag, attrs) ==
    LET el == Len(P.heap) + 1
    IN  [P EXCEPT !.heap = Append(AppendChild(P.heap, TopOf(P), el),
                                  HtmlElement(tag, attrs, None)),
                  !.element_stack = Append(P.element_stack, el)]

\* a variant of close_tag that stops at the element below the one it looks for
RECURSIVE close_tag_Short(_, _)
close_tag_Short(P, tag) ==
    IF Len(P.element_stack) > 1
    THEN IF P.heap[TopOf(P)].tag = tag THEN P ELSE close_tag_Short(Pop(P), tag)
    ELSE P

RECURSIVE close_tag(_, _)
close_tag(P, tag) ==
    IF Len(P.element_stack) > 1
    THEN IF P.heap[TopOf(P)].tag = tag THEN Pop(P) ELSE close_tag(Pop(P), tag)
    ELSE P

\* the first entry of the format stack that restore_format_stack leaves unmatched
RECURSIVE FirstUnmatched(_, _, _)
FirstUnmatched(P, fi, ti) ==
    IF ti > Len(P.element_stack) \/ fi > Len(P.format_stack) THEN fi
    ELSE IF TagAt(P, ti) = P.format_stack[fi][1] THEN FirstUnmatched(P, fi + 1, ti + 1)
    ELSE FirstUnmatched(P, fi, ti + 1)

RECURSIVE ReopenFrom(_, _)
ReopenFrom(P, fi) ==
    IF fi > Len(P.format_stack) THEN P
    ELSE ReopenFrom(open_tag(P, P.format_stack[fi][1], P.format_stack[fi][2]), fi + 1)

\* a variant of restore_format_stack that reopens every entry of the format stack
restore_format_stack_All(P) == ReopenFrom(P, 1)

restore_format_stack(P) == ReopenFrom(P, FirstUnmatched(P, 1, 1))

\* attrs[i] = (attrs[i][0], attrs[i][0]) for every attribute without a value
FixupNone(attrs) ==
    [i \in DOMAIN attrs |-> IF attrs[i][2] = None THEN <<attrs[i][1], attrs[i][1]>> ELSE attrs[i]]

\* a variant of MergeAttrs that replaces the root's attributes by the tag's
MergeAttrs_Replace(el, attrs) == [el EXCEPT !.attrib = CasefoldKeys(DictOf(attrs))]

\* for a, v in attrs: self.element_stack[0].set(a, v)
RECURSIVE MergeAttrs(_, _)
MergeAttrs(el, attrs) ==
    IF attrs = <<>> THEN el
    ELSE MergeAttrs(SetAttr(el, Head(attrs)[1], Head(attrs)[2]), Tail(attrs))

\* a variant of handle_starttag that does not close an open dd, dt or li first
handle_starttag_NoItemClose(P, tag, attrs) ==
    IF tag = "html"
    THEN [P EXCEPT !.heap[P.element_stack[1]] = MergeAttrs(@, attrs)]
    ELSE
    LET fixed == FixupNone(attrs)
        P1 == IF tag \in block_openers /\ has_in_scope(P, "p", block_scope_els)
              THEN close_tag(P, "p") ELSE P
        P2 == IF tag \in {"caption", "colgroup", "tbody", "td", "tfoot", "th", "thead", "tr"}
                 /\ has_in_scope(P1, tag, {"table"})
              THEN close_tag(P1, tag) ELSE P1
        P4 == IF tag \in {"optgroup", "option"} /\ has_in_scope(P2, tag, {"select"})
              THEN close_tag(P2, tag) ELSE P2
        P5 == IF tag \in formatting_els
              THEN LET R == restore_format_stack(P4)
                   IN  [R EXCEPT !.format_stack = Append(@, <<tag, DictOf(fixed)>>)]
              ELSE P4
        P6 == open_tag(P5, tag, DictOf(fixed))
    IN  IF tag \in void_els THEN close_tag(P6, tag) ELSE P6

\* a variant of handle_starttag that does not close an open p first
handle_starttag_NoParagraphClose(P, tag, attrs) ==
    IF tag = "html"
    THEN [P EXCEPT !.heap[P.element_stack[1]] = MergeAttrs(@, attrs)]
    ELSE
    LET fixed == FixupNone(attrs)
        P2 == IF tag \in {"caption", "colgroup", "tbody", "td", "tfoot", "th", "thead", "tr"}
                 /\ has_in_scope(P, tag, {"table"})
              THEN close_tag(P, tag) ELSE P
        P3 == IF tag \in {"dd", "dt", "li"} /\ has_in_scope(P2, tag, {"dl", "ol", "ul"})
              THEN close_tag(P2, tag) ELSE P2
        P4 == IF tag \in {"optgroup", "option"} /\ has_in_scope(P3, tag, {"select"})
              THEN close_tag(P3, tag) ELSE P3
        P5 == IF tag \in formatting_els
              THEN LET R == restore_format_stack(P4)
                   IN  [R EXCEPT !.format_stack = Append(@, <<tag, DictOf(fixed)>>)]
              ELSE P4
        P6 == open_tag(P5, tag, DictOf(fixed))
    IN  IF tag \in void_els THEN close_tag(P6, tag) ELSE P6

\* a variant of handle_starttag that leaves a void element open
handle_starttag_NoVoidClose(P, tag, attrs) ==
    IF tag = "html"
    THEN [P EXCEPT !.heap[P.element_stack[1]] = MergeAttrs(@, attrs)]
    ELSE
    LET fixed == FixupNone(attrs)
        P1 == IF tag \in block_openers /\ has_in_scope(P, "p", block_scope_els)
              THEN close_tag(P, "p") ELSE P
        P2 == IF tag \in {"caption", "colgroup", "tbody", "td", "tfoot", "th", "thead", "tr"}
                 /\ has_in_scope(P1, tag, {"table"})
              THEN close_tag(P1, tag) ELSE P1
        P3 == IF tag \in {"dd", "dt", "li"} /\ has_in_scope(P2, tag, {"dl", "ol", "ul"})
              THEN close_tag(P2, tag) ELSE P2
        P4 == IF tag \in {"optgroup", "option"} /\ has_in_scope(P3, tag, {"select"})
              THEN close_tag(P3, tag) ELSE P3
        P5 == IF tag \in formatting_els
              THEN LET R == restore_format_stack(P4)
                   IN  [R EXCEPT !.format_stack = Append(@, <<tag, DictOf(fixed)>>)]
              ELSE P4
    IN  open_tag(P5, tag, DictOf(fixed))

handle_starttag(P, tag, attrs) ==
    IF tag = "html"
    THEN [P EXCEPT !.heap[P.element_stack[1]] = MergeAttrs(@, attrs)]
    ELSE
    LET fixed == FixupNone(attrs)
        P1 == IF tag \in block_openers /\ has_in_scope(P, "p", block_scope_els)
              THEN close_tag(P, "p") ELSE P
        P2 == IF tag \in {"caption", "colgroup", "tbody", "td", "tfoot", "th", "thead", "tr"}
                 /\ has_in_scope(P1, tag, {"table"})
              THEN close_tag(P1, tag) ELSE P1
        P3 == IF tag \in {"dd", "dt", "li"} /\ has_in_scope(P2, tag, {"dl", "ol", "ul"})
              THEN close_tag(P2, tag) ELSE P2
        P4 == IF tag \in {"optgroup", "option"} /\ has_in_scope(P3, tag, {"select"})
              THEN close_tag(P3, tag) ELSE P3
        P5 == IF tag \in formatting_els
              THEN LET R == restore_format_stack(P4)
                   IN  [R EXCEPT !.format_stack = Append(@, <<tag, DictOf(fixed)>>)]
              ELSE P4
        P6 == open_tag(P5, tag, DictOf(fixed))
    IN  IF tag \in void_els THEN close_tag(P6, tag) ELSE P6

\* the attrs of the last entry of the format stack with this tag
LastFormatIndex(fs, tag) ==
    IF \E i \in DOMAIN fs : fs[i][1] = tag
    THEN CHOOSE i \in DOMAIN fs : fs[i][1] = tag /\ \A j \in (i + 1)..Len(fs) : fs[j][1] # tag
    ELSE 0

\* a variant of Implant that re-attaches el without wrapping its content in tag
Implant_NoWrap(P, el, tag, attrs) ==
    [P EXCEPT !.heap = AppendChild(P.heap, TopOf(P), el),
              !.element_stack = Append(P.element_stack, el)]

\* a variant of Implant that pushes el without appending it to the new top
Implant_NoReattach(P, el, tag, attrs) ==
    LET formatel == Len(P.heap) + 1
        fresh == [HtmlElement(tag, attrs, None) EXCEPT
                     !.text = P.heap[el].text, !.children = P.heap[el].children]
        h1 == Append(P.heap, fresh)
    IN  [P EXCEPT !.heap = [h1 EXCEPT ![el].children = <<formatel>>, ![el].text = <<>>],
                  !.element_stack = Append(P.element_stack, el)]

\* a variant of Implant that leaves the children of el in el as well
Implant_Shared(P, el, tag, attrs) ==
    LET formatel == Len(P.heap) + 1
        fresh == [HtmlElement(tag, attrs, None) EXCEPT
                     !.text = P.heap[el].text, !.children = P.heap[el].children]
        h1 == Append(P.heap, fresh)
        h2 == [h1 EXCEPT ![el].children = Append(@, formatel), ![el].text = <<>>]
    IN  [P EXCEPT !.heap = AppendChild(h2, TopOf(P), el),
                  !.element_stack = Append(P.element_stack, el)]

\* formatel.text = el.text; formatel.extend(list(el)); el loses its children and
\* text; el.append(formatel); self.element_stack[-1].append(el); push el
Implant(P, el, tag, attrs) ==
    LET formatel == Len(P.heap) + 1
        fresh == [HtmlElement(tag, attrs, None) EXCEPT
                     !.text = P.heap[el].text, !.children = P.heap[el].children]
        h1 == Append(P.heap, fresh)
        h2 == [h1 EXCEPT ![el].children = <<formatel>>, ![el].text = <<>>]
    IN  [P EXCEPT !.heap = AppendChild(h2, TopOf(P), el),
                  !.element_stack = Append(P.element_stack, el)]

RECURSIVE close_formatting_tag(_, _, _)
close_formatting_tag(P, tag, attrs) ==
    IF Len(P.element_stack) < 2 THEN Raise(P, "AssertionError")
    ELSE
    LET el == TopOf(P)
        below == P.element_stack[Len(P.element_stack) - 1]
    IN  IF P.heap[el].tag = tag THEN Pop(P)
        ELSE IF P.heap[el].tag \in formatting_els
        THEN LET R == close_formatting_tag(Pop(P), tag, attrs)
             IN  IF R.raised # "" THEN R
                 ELSE open_tag(R, P.heap[el].tag, P.heap[el].attrib)
        ELSE IF el \notin Range(P.heap[below].children) THEN Raise(P, "ValueError")
        ELSE LET D == [Pop(P) EXCEPT !.heap[below].children = RemoveFirst(@, el)]
                 R == close_formatting_tag(D, tag, attrs)
             IN  IF R.raised # "" THEN R ELSE Implant(R, el, tag, attrs)

\* while the top is a formatting element other than tag: pop
RECURSIVE PopFormatters(_, _)
PopFormatters(P, tag) ==
    IF P.heap[TopOf(P)].tag \in formatting_els /\ P.heap[TopOf(P)].tag # tag
    THEN PopFormatters(Pop(P), tag)
    ELSE P

\* a variant of DropLastFormat that deletes the first occurrence of tag
DropLastFormat_First(P, tag) ==
    IF \A i \in DOMAIN P.format_stack : P.format_stack[i][1] # tag THEN Raise(P, "ValueError")
    ELSE LET index == CHOOSE i \in DOMAIN P.format_stack :
                        /\ P.format_stack[i][1] = tag
                        /\ \A j \in 1..(i - 1) : P.format_stack[j][1] # tag
         IN  [P EXCEPT !.format_stack =
                 SubSeq(@, 1, index - 1) \o SubSeq(@, index + 1, Len(@))]

\* del self.format_stack[index], index being the last occurrence of tag
DropLastFormat(P, tag) ==
    LET index == LastFormatIndex(P.format_stack, tag)
    IN  IF index = 0 THEN Raise(P, "ValueError")
        ELSE [P EXCEPT !.format_stack =
                 SubSeq(@, 1, index - 1) \o SubSeq(@, index + 1, Len(@))]

\* a variant of handle_endtag that opens no p for a stray end tag
handle_endtag_NoStrayParagraph(P, tag) ==
    IF tag = "html" THEN P
    ELSE IF tag \in {"li", "dd", "dt"} /\ ~has_in_scope(P, tag, list_scope_els) THEN P
    ELSE IF tag \in formatting_els
    THEN IF tag \notin {P.format_stack[i][1] : i \in DOMAIN P.format_stack} THEN P
         ELSE LET P2 == IF tag \in StackTags(P)
                        THEN LET P3 == PopFormatters(P, tag)
                             IN  IF P3.heap[TopOf(P3)].tag = tag THEN Pop(P3)
                                 ELSE close_formatting_tag(P3, tag,
                                          P3.format_stack[LastFormatIndex(P3.format_stack, tag)][2])
                        ELSE P
              IN  IF P2.raised # "" THEN P2 ELSE DropLastFormat(P2, tag)
    ELSE IF has_in_scope(P, tag, default_scope_els) THEN close_tag(P, tag)
    ELSE P

handle_endtag(P, tag) ==
    IF tag = "html" THEN P
    ELSE
    LET P1 == IF tag = "p" /\ ~has_in_scope(P, tag, block_scope_els)
              THEN open_tag(P, "p", NoAttrs) ELSE P
    IN  IF tag \in {"li", "dd", "dt"} /\ ~has_in_scope(P1, tag, list_scope_els) THEN P1
        ELSE IF tag \in formatting_els
        THEN IF tag \notin {P1.format_stack[i][1] : i \in DOMAIN P1.format_stack} THEN P1
             ELSE LET P2 == IF tag \in StackTags(P1)
                            THEN LET P3 == PopFormatters(P1, tag)
                                 IN  IF P3.heap[TopOf(P3)].tag = tag THEN Pop(P3)
                                     ELSE close_formatting_tag(P3, tag,
                                              P3.format_stack[LastFormatIndex(P3.format_stack, tag)][2])
                            ELSE P1
                  IN  IF P2.raised # "" THEN P2 ELSE DropLastFormat(P2, tag)
        ELSE IF has_in_scope(P1, tag, default_scope_els) THEN close_tag(P1, tag)
        ELSE P1

\* a variant of handle_data that assigns the data instead of appending it
handle_data_Assign(P, data) ==
    LET R == restore_format_stack(P)
        el == TopOf(R)
        kids == R.heap[el].children
    IN  IF Len(kids) > 0
        THEN [R EXCEPT !.heap[Last(kids)].tail = data]
        ELSE [R EXCEPT !.heap[el].text = data]

handle_data(P, data) ==
    LET R == restore_format_stack(P)
        el == TopOf(R)
        kids == R.heap[el].children
    IN  IF Len(kids) > 0
        THEN [R EXCEPT !.heap[Last(kids)].tail = @ \o data]
        ELSE [R EXCEPT !.heap[el].text = @ \o data]

\* _TreeBuildingHTMLParser.finish: the heap after trimming; the result is the root
finish(P) ==
    LET root == P.element_stack[1]
        kids == P.heap[root].children
        h1 == IF Len(kids) > 0 /\ P.heap[kids[1]].tag \in {"head", "body"}
                 /\ IsBlank(P.heap[root].text)
              THEN [P.heap EXCEPT ![root].text = <<>>] ELSE P.heap
    IN  IF Len(kids) > 0 /\ h1[Last(kids)].tag \in {"head", "body"}
           /\ IsBlank(h1[TopOf(P)].tail)
        THEN [h1 EXCEPT ![Last(kids)].tail = <<>>] ELSE h1

(***************************************************************************)
(* Whole parses and whole trees, as values.                                *)
(***************************************************************************)
\* the subtree of an element: what structural equality of two trees compares
RECURSIVE Tree(_, _)
Tree(h, id) ==
    [tag |-> h[id].tag, attrib |-> h[id].attrib, text |-> h[id].text, tail |-> h[id].tail,
     kids |-> [i \in DOMAIN h[id].children |-> Tree(h, h[id].children[i])]]

HandleToken(P, tok) ==
    CASE tok[1] = "start" -> handle_starttag(P, tok[2], tok[3])
      [] tok[1] = "end" -> handle_endtag(P, tok[2])
      [] tok[1] = "data" -> handle_data(P, tok[2])

\* parser.feed(html): the handlers run in token order until one raises
RECURSIVE Feed(_, _)
Feed(P, toks) ==
    IF toks = <<>> \/ P.raised # "" THEN P
    ELSE Feed(HandleToken(P, Head(toks)), Tail(toks))


(***************************************************************************)
(* The serialiser (inner_html, outer_html) and the way back through the    *)
(* tokenizer.  The serialisation is kept as the list of its pieces: start  *)
(* tags, runs of escaped text, end tags.                                   *)
(***************************************************************************)
\* html.escape(s, quote=False), character by character
RECURSIVE EscapeText(_)
EscapeText(s) ==
    IF s = <<>> THEN <<>>
    ELSE (CASE Head(s) = "&" -> <<"&", "a", "m", "p", ";">>
            [] Head(s) = "<" -> <<"&", "l", "t", ";">>
            [] Head(s) = ">" -> <<"&", "g", "t", ";">>
            [] OTHER -> <<Head(s)>>) \o EscapeText(Tail(s))

StartsWith(s, prefix) == Len(s) >= Len(prefix) /\ SubSeq(s, 1, Len(prefix)) = prefix

\* the tokenizer's html.unescape of character data
RECURSIVE UnescapeText(_)
UnescapeText(s) ==
    IF s = <<>> THEN <<>>
    ELSE IF StartsWith(s, <<"&", "a", "m", "p", ";">>)
    THEN <<"&">> \o UnescapeText(SubSeq(s, 6, Len(s)))
    ELSE IF StartsWith(s, <<"&", "l", "t", ";">>)
    THEN <<"<">> \o UnescapeText(SubSeq(s, 5, Len(s)))
    ELSE IF StartsWith(s, <<"&", "g", "t", ";">>)
    THEN <<">">> \o UnescapeText(SubSeq(s, 5, Len(s)))
    ELSE <<Head(s)>> \o UnescapeText(Tail(s))

\* html.escape(v) of an attribute value (values are whole strings in the model)
EscapeValue(v) ==
    CASE v = "&" -> "&amp;"
      [] v = "<" -> "&lt;"
      [] v = ">" -> "&gt;"
      [] v = "\"" -> "&quot;"
      [] v = "'" -> "&#x27;"
      [] OTHER -> v

\* the tokenizer's unescape of an attribute value
UnescapeValue(v) ==
    CASE v = "&amp;" -> "&"
      [] v = "&lt;" -> "<"
      [] v = "&gt;" -> ">"
      [] v = "&quot;" -> "\""
      [] v = "&#x27;" -> "'"
      [] OTHER -> v

\* html.escape(None) raises AttributeError
RECURSIVE Escapable(_, _)
Escapable(h, id) ==
    /\ \A k \in DOMAIN h[id].attrib : h[id].attrib[k] # None
    /\ \A c \in Range(h[id].children) : Escapable(h, c)

TextPiece(s) == IF s = <<>> THEN <<>> ELSE <<<<"text", EscapeText(s)>>>>

RECURSIVE outer_pieces(_, _)
RECURSIVE inner_pieces_from(_, _, _)
inner_pieces_from(h, id, i) ==
    IF i > Len(h[id].children) THEN <<>>
    ELSE LET child == h[id].children[i]
         IN  outer_pieces(h, child) \o TextPiece(h[child].tail) \o inner_pieces_from(h, id, i + 1)

inner_pieces(h, id) == TextPiece(h[id].text) \o inner_pieces_from(h, id, 1)

outer_pieces(h, id) ==
    LET start == <<"start", h[id].tag,
                   [k \in DOMAIN h[id].attrib |-> EscapeValue(h[id].attrib[k])]>>
        i == inner_pieces(h, id)
    IN  IF Len(i) > 0 \/ h[id].tag \notin void_els
        THEN <<start>> \o i \o <<<<"end", h[id].tag>>>>
        ELSE <<start>>

\* HtmlElement.outer_html
outer_html(h, id) ==
    IF Escapable(h, id) THEN [raised |-> "", out |-> outer_pieces(h, id)]
    ELSE [raised |-> "AttributeError", out |-> <<>>]

\* the attributes of a start tag as the tokenizer's list of (name, value) pairs
ItemsSeq(d) ==
    CHOOSE s \in [1..Cardinality(DOMAIN d) -> Items(d)] : Range(s) = Items(d)

\* the tokens the tokenizer delivers for a serialisation (no script or style in it)
Tokenise(pieces) ==
    [i \in DOMAIN pieces |->
        CASE pieces[i][1] = "start" ->
                <<"start", pieces[i][2],
                  ItemsSeq([k \in DOMAIN pieces[i][3] |-> UnescapeValue(pieces[i][3][k])])>>
          [] pieces[i][1] = "text" -> <<"data", UnescapeText(pieces[i][2])>>
          [] pieces[i][1] = "end" -> pieces[i]]

\* parsehtmlstr of a serialisation: the heap after finish()
Finished(P) == [raised |-> P.raised, heap |-> IF P.raised = "" THEN finish(P) ELSE P.heap]

parsehtmlstr(pieces) == Finished(Feed(NewParser, Tokenise(pieces)))


(***************************************************************************)
(* Feeding the parser: one action per handler, then finish().              *)
(***************************************************************************)
Cur == ParserState(heap, element_stack, format_stack, raised)

Feeding == phase = "feed" /\ raised = "" /\ Len(log) < MaxTokens

Becomes(Q) ==
    /\ heap' = Q.heap
    /\ element_stack' = Q.element_stack
    /\ format_stack' = Q.format_stack
    /\ raised' = Q.raised

FormatTags(fs) == [i \in DOMAIN fs |-> fs[i][1]]

StartTag(tag, attrs) ==
    /\ Feeding
    /\ Becomes(handle_starttag(Cur, tag, attrs))
    /\ log' = Append(log, <<"start", tag, attrs>>)
    /\ UNCHANGED <<result, phase, consumed>>

EndTag(tag) ==
    /\ Feeding
    /\ Becomes(handle_endtag(Cur, tag))
    /\ log' = Append(log, <<"end", tag>>)
    /\ UNCHANGED <<result, phase, consumed>>

Data(data) ==
    /\ Feeding
    /\ Becomes(handle_data(Cur, data))
    /\ log' = Append(log, <<"data", data>>)
    /\ consumed' = Append(consumed, [data |-> data, fmt |-> FormatTags(format_stack)])
    /\ UNCHANGED <<result, phase>>

Finish ==
    /\ phase = "feed" /\ raised = ""
    /\ heap' = finish(Cur)
    /\ result' = element_stack[1]
    /\ phase' = "done"
    /\ UNCHANGED <<element_stack, format_stack, raised, log, consumed>>

ParserInit ==
    /\ heap = NewParser.heap
    /\ element_stack = NewParser.element_stack
    /\ format_stack = NewParser.format_stack
    /\ raised = ""
    /\ result = None
    /\ phase = "feed"
    /\ log = <<>>
    /\ consumed = <<>>

(***************************************************************************)
(* Misnested formatting: the tags b, i (formatting), div and p (blocks),   *)
(* every character-data token a character of its own.                      *)
(***************************************************************************)
DataChars == <<"x", "y", "z", "w", "v", "u", "t">>

FreshChar == <<DataChars[Len(consumed) + 1]>>

FmtTags == {"b", "i", "div", "p"}

FmtNext ==
    \/ \E tag \in FmtTags : StartTag(tag, <<>>)
    \/ \E tag \in FmtTags : EndTag(tag)
    \/ Data(FreshChar)
    \/ Finish

FmtSpec == ParserInit /\ [][FmtNext]_vars

(***************************************************************************)
(* C1, C2: misnesting recovery keeps every text under its formatters, and  *)
(* never raises.                                                           *)
(***************************************************************************)
\* the multiset of formatting tags in a sequence of tags
FmtOf(tags) == [t \in formatting_els |-> Cardinality({i \in DOMAIN tags : tags[i] = t})]

\* every character of the subtree of id, paired with the formatting tags among
\* the ancestors of the text or tail that holds it (anc: the tags above id)
RECURSIVE Locs(_, _, _)
Locs(h, id, anc) ==
    LET here == Append(anc, h[id].tag)
    IN  {<<h[id].text[i], FmtOf(here)>> : i \in DOMAIN h[id].text}
        \cup UNION {Locs(h, k, here) \cup {<<h[k].tail[i], FmtOf(here)>> : i \in DOMAIN h[k].tail}
                    : k \in Range(h[id].children)}

ConsumedLocs ==
    UNION {{<<consumed[i].data[j], FmtOf(consumed[i].fmt)>> : j \in DOMAIN consumed[i].data}
           : i \in DOMAIN consumed}

HardClose(k) ==
    /\ k > 2
    /\ log[k] = <<"end", "b">>
    /\ log[k - 1][1] = "data"
    /\ log[k - 2] = <<"start", "div", <<>>>>
    /\ \E i \in DOMAIN consumed : "b" \in Range(consumed[i].fmt)

DocTags == {"html", "body", "p"}

DocAttrs == {<<>>, <<<<"id", "1">>>>, <<<<"lang", None>>>>}

DocChars == {" ", "x", "&"}

DocNext ==
    \/ Len(log) < MaxDocTokens /\ \E tag \in DocTags, attrs \in DocAttrs : StartTag(tag, attrs)
    \/ Len(log) < MaxDocTokens /\ \E tag \in DocTags : EndTag(tag)
    \/ Len(log) < MaxDocTokens /\ \E c \in DocChars : Data(<<c>>)
    \/ Finish

DocSpec == ParserInit /\ [][DocNext]_vars

\* the last token fed
LastToken == log[Len(log)]

Fed(tok) == log' = Append(log, tok)

\* C3: the root stays the html element at the bottom of the stack, no other html
\* element exists; an html start tag only merges its attributes into the root,
\* an html end tag changes nothing
C3_StateInv ==
    /\ element_stack # <<>>
    /\ element_stack[1] = 1
    /\ heap[1].tag = "html"
    /\ \A e \in DOMAIN heap : e # 1 => heap[e].tag # "html"
    /\ phase = "done" => result = 1

C3_HtmlStart ==
    \A attrs \in DocAttrs : Fed(<<"start", "html", attrs>>) =>
        /\ UNCHANGED <<element_stack, format_stack>>
        /\ DOMAIN heap' = DOMAIN heap
        /\ \A e \in DOMAIN heap : e # 1 => heap'[e] = heap[e]
        /\ heap'[1] = [heap[1] EXCEPT !.attrib = heap'[1].attrib]
        /\ DOMAIN heap'[1].attrib = DOMAIN heap[1].attrib \cup {a[1] : a \in Range(attrs)}
        /\ \A a \in Range(attrs) : heap'[1].attrib[a[1]] = a[2]
        /\ \A k \in DOMAIN heap[1].attrib :
              k \notin {a[1] : a \in Range(attrs)} => heap'[1].attrib[k] = heap[1].attrib[k]

C3_HtmlEnd == Fed(<<"end", "html">>) => UNCHANGED <<heap, element_stack, format_stack>>

C3_RootIsHtml == [](C3_StateInv) /\ [][C3_HtmlStart /\ C3_HtmlEnd]_vars

\* the root carries two merged attributes and a child
C3_Witness ==
    /\ phase = "done"
    /\ DOMAIN heap[1].attrib = {"id", "lang"}
    /\ Len(heap[1].children) > 0
    /\ \E k \in DOMAIN log : log[k] = <<"end", "html">>

\* C4: serialising the parsed tree with outer_html and parsing the serialisation
\* again yields a structurally equal tree
C4_RoundTrip ==
    phase = "done" =>
        LET ser == outer_html(heap, result)
        IN  /\ ser.raised = ""
            /\ parsehtmlstr(ser.out).raised = ""
            /\ Tree(parsehtmlstr(ser.out).heap, 1) = Tree(heap, result)

\* C5: finish() empties the root's text only if it is blank and the first child is
\* head or body, and the tail of the root's last child only if it is blank and
\* that child is head or body; every other text and tail is unchanged
C5_TrimOnlyBlank ==
    [][(phase = "feed" /\ phase' = "done") =>
        \A e \in DOMAIN heap :
            /\ heap'[e] = [heap[e] EXCEPT !.text = heap'[e].text, !.tail = heap'[e].tail]
            /\ heap'[e].text # heap[e].text =>
                  /\ e = element_stack[1]
                  /\ heap'[e].text = <<>>
                  /\ IsBlank(heap[e].text)
                  /\ heap[heap[e].children[1]].tag \in {"head", "body"}
            /\ heap'[e].tail # heap[e].tail =>
                  /\ heap[element_stack[1]].children # <<>>
                  /\ e = Last(heap[element_stack[1]].children)
                  /\ heap'[e].tail = <<>>
                  /\ IsBlank(heap[e].tail)
                  /\ heap[e].tag \in {"head", "body"}]_vars

(***************************************************************************)
(* Text extraction: itertext and text_content over a small tree            *)
(* p > [b], every text and tail drawn from the strings up to MaxText.      *)
(***************************************************************************)
\* HtmlElement.itertext: the non-empty texts and tails below id, in document order
RECURSIVE itertext(_, _)
RECURSIVE itertext_from(_, _, _)
itertext_from(h, id, i) ==
    IF i > Len(h[id].children) THEN <<>>
    ELSE LET e == h[id].children[i]
         IN  itertext(h, e) \o (IF h[e].tail # <<>> THEN <<h[e].tail>> ELSE <<>>)
                 \o itertext_from(h, id, i + 1)

itertext(h, id) ==
    (IF h[id].text # <<>> THEN <<h[id].text>> ELSE <<>>) \o itertext_from(h, id, 1)

\* the length of the longest prefix of t without whitespace
RECURSIVE WordLen(_)
WordLen(t) == IF t = <<>> \/ t[1] \in Whitespace THEN 0 ELSE 1 + WordLen(Tail(t))

\* re.split('[ \t\r\n\f]+', t) without the empty pieces
RECURSIVE SplitWs(_)
SplitWs(t) ==
    IF t = <<>> THEN <<>>
    ELSE IF t[1] \in Whitespace THEN SplitWs(Tail(t))
    ELSE <<SubSeq(t, 1, WordLen(t))>> \o SplitWs(SubSeq(t, WordLen(t) + 1, Len(t)))

\* ' '.join(l)
RECURSIVE JoinSp(_)
JoinSp(l) ==
    IF l = <<>> THEN <<>>
    ELSE IF Len(l) = 1 THEN l[1]
    ELSE l[1] \o <<" ">> \o JoinSp(Tail(l))

\* the list l of text_content: the pieces of every fragment, fragment by fragment
RECURSIVE SplitEach(_)
SplitEach(frags) ==
    IF frags = <<>> THEN <<>> ELSE SplitWs(frags[1]) \o SplitEach(Tail(frags))

\* HtmlElement.text_content
text_content(h, id) == JoinSp(SplitEach(itertext(h, id)))

MaxText == 2

TextChars == {"a", " ", "\n"}

Texts == UNION {[1..n -> TextChars] : n \in 0..MaxText}

TextInit ==
    /\ \E t1, t2, tl \in Texts :
          heap = << [HtmlElement("p", NoAttrs, None) EXCEPT !.text = t1, !.children = <<2>>],
                    [HtmlElement("b", NoAttrs, None) EXCEPT !.text = t2, !.tail = tl] >>
    /\ element_stack = <<>>
    /\ format_stack = <<>>
    /\ raised = ""
    /\ result = None
    /\ phase = "tree"
    /\ log = <<>>
    /\ consumed = <<>>

TextContent(e) ==
    /\ phase = "tree"
    /\ result' = text_content(heap, e)
    /\ phase' = "done"
    /\ log' = Append(log, <<"text_content", e>>)
    /\ UNCHANGED <<heap, element_stack, format_stack, raised, consumed>>

TextNext == \E e \in DOMAIN heap : TextContent(e)

TextSpec == TextInit /\ [][TextNext]_vars

\* all fragments in one string
RECURSIVE Concat(_)
Concat(frags) == IF frags = <<>> THEN <<>> ELSE frags[1] \o Concat(Tail(frags))

\* split on runs of whitespace, join the non-empty pieces with single spaces
normalise_ws(s) == JoinSp(SplitWs(s))

\* C6: text_content of an element is the whitespace-normalised concatenation of
\* its itertext() fragments; fragments that touch without whitespace between
\* them are not separated by a space
C6_TextContent ==
    (phase = "done" /\ log # <<>> /\ LastToken[1] = "text_content") =>
        result = normalise_ws(Concat(itertext(heap, LastToken[2])))

(***************************************************************************)
(* Tree manipulation: two Documents D1 and D2, each with an empty html     *)
(* root, unattached fragments from HTML(), and the calls that build trees. *)
(***************************************************************************)
MaxElems == 5

MaxCalls == 3

Documents == {"D1", "D2"}

Outcome(h, exc) == [heap |-> h, raised |-> exc]

\* HtmlElement.append
append(h, self, subelement) ==
    IF h[subelement].backend # h[self].backend THEN Outcome(h, "AssertionError")
    ELSE Outcome(AppendChild(h, self, subelement), "")

\* HtmlElement.extend
RECURSIVE extend(_, _, _)
extend(h, self, elements) ==
    IF elements = <<>> THEN Outcome(h, "")
    ELSE IF h[elements[1]].backend # h[self].backend THEN Outcome(h, "AssertionError")
    ELSE extend(append(h, self, elements[1]).heap, self, Tail(elements))

\* list.insert(index, x) for index >= 0
InsertAt(s, index, x) ==
    LET i == IF index > Len(s) THEN Len(s) ELSE index
    IN  SubSeq(s, 1, i) \o <<x>> \o SubSeq(s, i + 1, Len(s))

\* HtmlElement.insert
insert(h, self, index, subelement) ==
    IF h[subelement].backend # h[self].backend THEN Outcome(h, "AssertionError")
    ELSE Outcome([h EXCEPT ![self].children = InsertAt(@, index, subelement)], "")

\* HtmlElement.remove
remove(h, self, subelement) ==
    IF subelement \notin Range(h[self].children) THEN Outcome(h, "ValueError")
    ELSE Outcome([h EXCEPT ![self].children = RemoveFirst(@, subelement)], "")

\* _assign_elements_to_backend, depth first: work holds the elements still to visit
RECURSIVE assign_elements_to_backend(_, _, _)
assign_elements_to_backend(h, work, backend) ==
    IF work = <<>> THEN Outcome(h, "")
    ELSE IF h[work[1]].backend # None THEN Outcome(h, "AssertionError")
    ELSE assign_elements_to_backend([h EXCEPT ![work[1]].backend = backend],
                                    h[work[1]].children \o Tail(work), backend)

\* Document.adopt_element
adopt_element(h, doc, el) == assign_elements_to_backend(h, <<el>>, doc)

\* Document.create_element
create_element(h, doc, tag) == Append(h, HtmlElement(tag, NoAttrs, doc))

\* the literals given to HTML() and to inner_html: '<p><b>' and '<i>'
Literals == { << <<"start", "p", <<>> >>, <<"start", "b", <<>> >> >>,
              << <<"start", "i", <<>> >> >> }

\* the elements first..Len(h2) of a freshly parsed tree h2, added to the heap h
Graft(h, h2, first) ==
    h \o [i \in 1..(Len(h2) - first + 1) |->
            [h2[i + first - 1] EXCEPT
                !.children = [j \in DOMAIN @ |-> @[j] - first + 1 + Len(h)]]]

\* parsefragmentstr without the test of the child's tail
Unwrap_NoTailTest(h, et) ==
    IF Len(et[1].children) = 1 /\ IsBlank(et[1].text)
    THEN [heap |-> Graft(h, [et EXCEPT ![et[1].children[1]].tail = <<>>], 2),
          el |-> et[1].children[1] - 1 + Len(h)]
    ELSE [heap |-> Graft(h, et, 1), el |-> 1 + Len(h)]

\* parsefragmentstr, after parsing: the heap with the fragment's elements added,
\* and the element returned
Unwrap(h, et) ==
    IF /\ Len(et[1].children) = 1
       /\ IsBlank(et[1].text)
       /\ IsBlank(et[et[1].children[1]].tail)
    THEN [heap |-> Graft(h, [et EXCEPT ![et[1].children[1]].tail = <<>>], 2),
          el |-> et[1].children[1] - 1 + Len(h)]
    ELSE [heap |-> Graft(h, et, 1), el |-> 1 + Len(h)]

parsefragmentstr(h, pieces) == Unwrap(h, parsehtmlstr(pieces).heap)

\* the setter of HtmlElement.inner_html, after parsing and assigning the backend:
\* the parsed html root itself is dropped
ReplaceContent(h, self, htmlel) ==
    [Graft(h, htmlel, 2) EXCEPT
        ![self].text = htmlel[1].text,
        ![self].children = [j \in DOMAIN htmlel[1].children |->
                               htmlel[1].children[j] - 1 + Len(h)]]

set_inner_html(h, self, pieces) ==
    ReplaceContent(h, self,
                   assign_elements_to_backend(parsehtmlstr(pieces).heap, <<1>>,
                                              h[self].backend).heap)

Calling == phase = "dom" /\ raised = "" /\ Len(log) < MaxCalls

Returns(out, call) ==
    /\ heap' = out.heap
    /\ raised' = out.raised
    /\ log' = Append(log, call)
    /\ UNCHANGED <<element_stack, format_stack, phase, consumed, result>>

DoCreateElement(doc) ==
    /\ Calling
    /\ Len(heap) < MaxElems
    /\ heap' = create_element(heap, doc, "p")
    /\ result' = Len(heap) + 1
    /\ log' = Append(log, <<"create_element", doc>>)
    /\ UNCHANGED <<element_stack, format_stack, phase, consumed, raised>>

ReturnsElement(r, call) ==
    /\ Len(r.heap) <= MaxElems
    /\ heap' = r.heap
    /\ result' = r.el
    /\ log' = Append(log, call)
    /\ UNCHANGED <<element_stack, format_stack, phase, consumed, raised>>

DoHTML(pieces) ==
    Calling /\ ReturnsElement(parsefragmentstr(heap, pieces), <<"HTML", pieces>>)

DoAdoptElement(doc, el) ==
    Calling /\ Returns(adopt_element(heap, doc, el), <<"adopt_element", doc, el>>)

DoAppend(self, el) ==
    Calling /\ Returns(append(heap, self, el), <<"append", self, el>>)

DoInsert(self, index, el) ==
    Calling /\ Returns(insert(heap, self, index, el), <<"insert", self, index, el>>)

DoExtend(self, els) ==
    Calling /\ Returns(extend(heap, self, els), <<"extend", self, els>>)

DoRemove(self, el) ==
    Calling /\ Returns(remove(heap, self, el), <<"remove", self, el>>)

Replaces(h, call) == Len(h) <= MaxElems /\ Returns(Outcome(h, ""), call)

DoSetInnerHtml(self, pieces) ==
    Calling /\ Replaces(set_inner_html(heap, self, pieces), <<"inner_html", self, pieces>>)

DomInit ==
    /\ heap = <<HtmlElement("html", NoAttrs, "D1"), HtmlElement("html", NoAttrs, "D2")>>
    /\ element_stack = <<>>
    /\ format_stack = <<>>
    /\ raised = ""
    /\ result = None
    /\ phase = "dom"
    /\ log = <<>>
    /\ consumed = <<>>

DomNext ==
    \/ \E doc \in Documents : DoCreateElement(doc)
    \/ \E pieces \in Literals : DoHTML(pieces)
    \/ \E doc \in Documents, el \in DOMAIN heap : DoAdoptElement(doc, el)
    \/ \E self, el \in DOMAIN heap : DoAppend(self, el)
    \/ \E self, el \in DOMAIN heap, index \in {0, 1} : DoInsert(self, index, el)
    \/ \E self, e1, e2 \in DOMAIN heap : DoExtend(self, <<e1, e2>>)
    \/ \E self, el \in DOMAIN heap : DoRemove(self, el)
    \/ \E self \in DOMAIN heap, pieces \in Literals : DoSetInnerHtml(self, pieces)

DomSpec == DomInit /\ [][DomNext]_vars

\* the places (parent, position) where element e is a child
Places(e) ==
    UNION {{<<p, i>> : i \in {j \in DOMAIN heap[p].children : heap[p].children[j] = e}}
           : p \in DOMAIN heap}

\* C7: after any sequence of append, insert, extend and remove calls every
\* element is in the child list of at most one parent, and at most once
C7_OneParent == phase = "dom" => \A e \in DOMAIN heap : Cardinality(Places(e)) <= 1

\* C8: every child element has the same document association as its parent
C8_SameBackend ==
    phase = "dom" =>
        \A p \in DOMAIN heap : \A c \in Range(heap[p].children) :
            heap[c].backend = heap[p].backend

(***************************************************************************)
(* Forms: the input, textarea and select elements of a form, get_field     *)
(* and set_field.                                                          *)
(***************************************************************************)
\* the strings used as attribute values and field values
FormValues == {"", "a", "b", "on"}

\* the characters of a string, for the text of an element
Chars(s) ==
    CASE s = "" -> <<>>
      [] s = "a" -> <<"a">>
      [] s = "b" -> <<"b">>
      [] s = "on" -> <<"o", "n">>
      [] s = "a b" -> <<"a", " ", "b">>
      [] s = "x" -> <<"x">>

\* str(text): the string with the given characters
StrOf(t) == CHOOSE s \in FormValues : Chars(s) = t

\* Python's x or d, for x a string or None
Or(x, d) == IF x = None \/ x = "" THEN d ELSE x

\* str.lower().strip() on the type attributes the model uses
LowerStrip(s) == IF s = "RADIO " THEN "radio" ELSE s

\* HtmlElement.iter(): the element and its descendants, in document order
RECURSIVE iter(_, _)
RECURSIVE iter_from(_, _, _)
iter_from(h, id, i) ==
    IF i > Len(h[id].children) THEN <<>>
    ELSE iter(h, h[id].children[i]) \o iter_from(h, id, i + 1)

iter(h, id) == <<id>> \o iter_from(h, id, 1)

\* isinstance(x, HtmlInputElement): the class is chosen from the tag
IsInputElement(el) == el.tag \in {"input", "textarea", "select"}

\* HtmlFormElement.elements
elements(h, form) == SelectSeq(iter(h, form), LAMBDA e : IsInputElement(h[e]))

\* HtmlInputElement.name
name_of(el) == Get(el, "name")

\* HtmlInputElement.type, HtmlTextareaElement.type, HtmlSelectElement.type
type_of(el) ==
    IF el.tag = "textarea" THEN "textarea"
    ELSE IF el.tag = "select" THEN "select"
    ELSE LowerStrip(Or(Get(el, "type"), "text"))

\* HtmlInputElement.checked
checked(el) == IF type_of(el) \in {"checkbox", "radio"} THEN Get(el, "checked") # None ELSE FALSE

\* HtmlSelectElement.options
options(h, sel) == SelectSeq(iter(h, sel), LAMBDA e : h[e].tag = "option")

\* HtmlOptionElement.value
option_value(o) == Or(Get(o, "value"), StrOf(o.text))

\* HtmlOptionElement.selected
selected(o) == Get(o, "selected") # None

Value(v) == [raised |-> "", value |-> v]

Raises(exc) == [raised |-> exc, value |-> None]

\* HtmlSelectElement.value
select_value(h, sel) ==
    LET sl == SelectSeq(options(h, sel), LAMBDA e : selected(h[e]))
    IN  IF Len(sl) = 1 THEN Value(Or(Get(h[sl[1]], "value"), StrOf(h[sl[1]].text)))
        ELSE IF Len(sl) = 0
        THEN (IF Len(options(h, sel)) > 0 THEN Value(option_value(h[options(h, sel)[1]]))
              ELSE Value(""))
        ELSE Raises("UnsupportedFormError")

\* HtmlInputElement.value, HtmlTextareaElement.value, HtmlSelectElement.value
value(h, e) ==
    IF h[e].tag = "textarea" THEN Value(StrOf(h[e].text))
    ELSE IF h[e].tag = "select" THEN select_value(h, e)
    ELSE IF type_of(h[e]) \in {"radio", "checkbox"} THEN Value(Or(Get(h[e], "value"), "on"))
    ELSE Value(Or(Get(h[e], "value"), ""))

\* the elements of the form with the given name
Named(h, form, name) == SelectSeq(elements(h, form), LAMBDA e : name_of(h[e]) = name)

\* get_field with the first checked radio button taken when several are checked
get_field_FirstChecked(h, form, name) ==
    LET inputs == Named(h, form, name)
        chk == SelectSeq(inputs, LAMBDA x : checked(h[x]))
    IN  IF Len(inputs) > 1
        THEN IF \E i \in DOMAIN inputs : type_of(h[inputs[i]]) # "radio"
             THEN Raises("UnsupportedFormError")
             ELSE IF Len(chk) >= 1 THEN value(h, chk[1])
             ELSE Value(None)
        ELSE IF Len(inputs) = 1 THEN value(h, inputs[1])
        ELSE Raises("InputNotFoundError")

\* HtmlFormElement.get_field
get_field(h, form, name) ==
    LET inputs == Named(h, form, name)
        chk == SelectSeq(inputs, LAMBDA x : checked(h[x]))
    IN  IF Len(inputs) > 1
        THEN IF \E i \in DOMAIN inputs : type_of(h[inputs[i]]) # "radio"
             THEN Raises("UnsupportedFormError")
             ELSE IF Len(chk) = 1 THEN value(h, chk[1])
             ELSE IF Len(chk) = 0 THEN Value(None)
             ELSE Raises("UnsupportedFormError")
        ELSE IF Len(inputs) = 1 THEN value(h, inputs[1])
        ELSE Raises("InputNotFoundError")

\* a variant of the setter that flips the selected state of a matching option
set_option_selected_Toggle(o, sel) ==
    IF sel /\ Get(o, "selected") = None THEN SetAttr(o, "selected", "selected")
    ELSE IF Get(o, "selected") # None THEN DelAttr(o, "selected") ELSE o

\* the setter of HtmlOptionElement.selected
set_option_selected(o, sel) ==
    IF sel THEN SetAttr(o, "selected", "selected")
    ELSE IF Get(o, "selected") # None THEN DelAttr(o, "selected") ELSE o

\* a variant of set_selected that selects the matching options without a check
set_selected_NoCheck(h, sel, values) ==
    Outcome([e \in DOMAIN h |->
                IF e \in Range(options(h, sel))
                THEN set_option_selected(h[e], option_value(h[e]) \in values)
                ELSE h[e]],
            IF values \ {option_value(h[o]) : o \in Range(options(h, sel))} # {}
            THEN "UnsupportedFormError" ELSE "")

\* HtmlOptionCollection.set_selected
set_selected(h, sel, values) ==
    LET opts == Range(options(h, sel))
    IN  IF values \ {option_value(h[o]) : o \in opts} # {}
        THEN Outcome(h, "UnsupportedFormError")
        ELSE Outcome([e \in DOMAIN h |->
                        IF e \in opts
                        THEN set_option_selected(h[e], option_value(h[e]) \in values)
                        ELSE h[e]], "")

\* the setters of HtmlInputElement.value, HtmlTextareaElement.value, HtmlSelectElement.value
set_value(h, e, val) ==
    IF h[e].tag = "textarea" THEN Outcome([h EXCEPT ![e].text = Chars(val)], "")
    ELSE IF h[e].tag = "select" THEN set_selected(h, e, {val})
    ELSE Outcome([h EXCEPT ![e] = SetAttr(@, "value", val)], "")

\* a variant of set_field that unchecks the radio buttons of the name before it
\* looks for the button with the value
set_field_UncheckFirst(h, form, name, val) ==
    LET inputs == Named(h, form, name)
        withval == SelectSeq(inputs, LAMBDA x : Get(h[x], "value") = val)
        unchecked == [e \in DOMAIN h |->
                         IF e \in Range(inputs) /\ Get(h[e], "checked") # None
                         THEN DelAttr(h[e], "checked") ELSE h[e]]
    IN  IF Len(inputs) > 1
        THEN IF \E i \in DOMAIN inputs : type_of(h[inputs[i]]) # "radio"
             THEN Outcome(h, "UnsupportedFormError")
             ELSE IF Len(withval) >= 1
             THEN Outcome([unchecked EXCEPT ![withval[1]] = SetAttr(@, "checked", "checked")], "")
             ELSE Outcome(unchecked, "UnsupportedFormError")
        ELSE IF Len(inputs) = 1 THEN set_value(h, inputs[1], val)
        ELSE Outcome(h, "InputNotFoundError")

\* HtmlFormElement.set_field
set_field(h, form, name, val) ==
    LET inputs == Named(h, form, name)
        withval == SelectSeq(inputs, LAMBDA x : Get(h[x], "value") = val)
    IN  IF Len(inputs) > 1
        THEN IF \E i \in DOMAIN inputs : type_of(h[inputs[i]]) # "radio"
             THEN Outcome(h, "UnsupportedFormError")
             ELSE IF Len(withval) >= 1
             THEN Outcome([e \in DOMAIN h |->
                             IF e = withval[1] THEN SetAttr(h[e], "checked", "checked")
                             ELSE IF e \in Range(inputs) /\ Get(h[e], "checked") # None
                             THEN DelAttr(h[e], "checked")
                             ELSE h[e]], "")
             ELSE Outcome(h, "UnsupportedFormError")
        ELSE IF Len(inputs) = 1 THEN set_value(h, inputs[1], val)
        ELSE Outcome(h, "InputNotFoundError")

MaxInputs == 2

MaxFieldCalls == 2

\* an input element with the given attributes
Inp(pairs) == [el |-> HtmlElement("input", DictOf(pairs), None), opts |-> <<>>]

RadioValues == {<<>>, << <<"value", "a">> >>, << <<"value", "b">> >>}

\* a boolean attribute, absent or present (without a value, its name is the value)
Flag(key) == {<<>>, << <<key, key>> >>}

\* the option elements <option value=a> and <option>b</option>, selected or not,
\* and <option value=a> with <option>a</option>, two options of one value
OptionLists ==
    {<<>>,
     << HtmlElement("option", DictOf(<< <<"value", "a">> >>), None),
        [HtmlElement("option", NoAttrs, None) EXCEPT !.text = <<"a">>] >>} \cup
    { << HtmlElement("option", DictOf(<< <<"value", "a">> >> \o s1), None),
         [HtmlElement("option", DictOf(s2), None) EXCEPT !.text = <<"b">>] >>
      : s1 \in Flag("selected"), s2 \in Flag("selected") }

\* the controls a form is made of: radio buttons, text inputs, a checkbox, a
\* textarea and selects named n, and inputs with another name or none
InputKinds ==
    {Inp(<< <<"type", "radio">>, <<"name", "n">> >> \o v \o c)
        : v \in RadioValues, c \in Flag("checked")}
    \cup {Inp(<< <<"type", "RADIO ">>, <<"name", "n">>, <<"value", "a">> >>),
          Inp(<< <<"name", "n">> >>),
          Inp(<< <<"name", "n">>, <<"value", "a">> >>),
          Inp(<< <<"type", "checkbox">>, <<"name", "n">>, <<"checked", "checked">> >>),
          Inp(<< <<"name", "m">>, <<"value", "b">> >>),
          Inp(<< <<"value", "a">> >>),
          Inp(<< <<"name", "">>, <<"value", "a">> >>),
          Inp(<< <<"name", "n">>, <<"value", "a">>, <<"disabled", "disabled">> >>),
          [el |-> [HtmlElement("textarea", DictOf(<< <<"name", "n">> >>), None)
                      EXCEPT !.text = <<"a">>],
           opts |-> <<>>]}
    \cup {[el |-> HtmlElement("select", DictOf(<< <<"name", "n">> >>), None), opts |-> o]
             : o \in OptionLists}

\* the tree of a form with the given controls as children
RECURSIVE AddInputs(_, _)
AddInputs(h, kinds) ==
    IF kinds = <<>> THEN h
    ELSE LET id == Len(h) + 1
             el == [kinds[1].el EXCEPT !.children = [j \in DOMAIN kinds[1].opts |-> id + j]]
         IN  AddInputs([(Append(h, el) \o kinds[1].opts) EXCEPT ![1].children = Append(@, id)],
                       Tail(kinds))

FormInit ==
    /\ \E kinds \in UNION {[1..n -> InputKinds] : n \in 0..MaxInputs} :
          heap = AddInputs(<<HtmlElement("form", NoAttrs, None)>>, kinds)
    /\ element_stack = <<>>
    /\ format_stack = <<>>
    /\ raised = ""
    /\ result = None
    /\ phase = "form"
    /\ log = <<>>
    /\ consumed = <<>>

FieldNames == {"n", "m"}

FieldCalling == phase = "form" /\ raised = "" /\ Len(log) < MaxFieldCalls

Got(out, call) ==
    /\ result' = out.value
    /\ raised' = out.raised
    /\ log' = Append(log, call)
    /\ UNCHANGED <<heap, element_stack, format_stack, phase, consumed>>

DoGetField(name) ==
    FieldCalling /\ Got(get_field(heap, 1, name), <<"get_field", name>>)

DoSetField(name, val) ==
    FieldCalling /\ Returns(set_field(heap, 1, name, val), <<"set_field", name, val>>)

\* HtmlInputElement.enabled
enabled(el) == Get(el, "disabled") = None

\* the pairs get_formdata yields for one element, unchecked boxes included
formdata_of_Unchecked(h, i) ==
    IF ~enabled(h[i]) THEN <<>>
    ELSE IF name_of(h[i]) \in {None, ""} THEN <<>>
    ELSE IF type_of(h[i]) \in {"radio", "checkbox"}
    THEN << <<name_of(h[i]), Or(value(h, i).value, "on")>> >>
    ELSE IF h[i].tag = "select"
    THEN LET sl == SelectSeq(options(h, i), LAMBDA o : selected(h[o]))
         IN  [k \in DOMAIN sl |-> <<name_of(h[i]), Or(option_value(h[sl[k]]), "")>>]
    ELSE << <<name_of(h[i]), Or(value(h, i).value, "")>> >>

\* the pairs get_formdata yields for one element
formdata_of(h, i) ==
    IF ~enabled(h[i]) THEN <<>>
    ELSE IF name_of(h[i]) \in {None, ""} THEN <<>>
    ELSE IF type_of(h[i]) \in {"radio", "checkbox"}
    THEN (IF checked(h[i]) THEN << <<name_of(h[i]), Or(value(h, i).value, "on")>> >>
          ELSE <<>>)
    ELSE IF h[i].tag = "select"
    THEN LET sl == SelectSeq(options(h, i), LAMBDA o : selected(h[o]))
         IN  [k \in DOMAIN sl |-> <<name_of(h[i]), Or(option_value(h[sl[k]]), "")>>]
    ELSE << <<name_of(h[i]), Or(value(h, i).value, "")>> >>

RECURSIVE formdata_from(_, _)
formdata_from(h, els) ==
    IF els = <<>> THEN <<>> ELSE formdata_of(h, els[1]) \o formdata_from(h, Tail(els))

\* HtmlFormElement.get_formdata, as the list of its pairs
get_formdata(h, form) == formdata_from(h, elements(h, form))

DoGetFormdata ==
    FieldCalling /\ Got(Value(get_formdata(heap, 1)), <<"get_formdata">>)

\* a caller that catches the error of set_field and makes the same call again
DoSetFieldAgain ==
    /\ phase = "form" /\ raised # "" /\ Len(log) < MaxFieldCalls
    /\ log[Len(log)][1] = "set_field"
    /\ Returns(set_field(heap, 1, log[Len(log)][2], log[Len(log)][3]), log[Len(log)])

FormNext ==
    \/ \E name \in FieldNames : DoGetField(name)
    \/ \E name \in FieldNames, val \in FormValues : DoSetField(name, val)
    \/ DoSetFieldAgain
    \/ DoGetFormdata

FormSpec == FormInit /\ [][FormNext]_vars

\* the group of name N: the form's input, textarea and select elements named N
Group(name) == Range(Named(heap, 1, name))

AllRadio(G) == \A e \in G : type_of(heap[e]) = "radio"

\* C9: for a name whose elements are all radio inputs (one or more), set_field(N, v)
\* returns with exactly one member checked exactly when some member's value (its
\* value attribute, "on" when it has none) equals v, and raises UnsupportedFormError
\* otherwise
C9_RadioGroup ==
    [][\A name \in FieldNames, v \in FormValues :
        (/\ log' = Append(log, <<"set_field", name, v>>)
         /\ Group(name) # {}
         /\ AllRadio(Group(name)))
        => IF \E e \in Group(name) : Or(Get(heap[e], "value"), "on") = v
           THEN /\ raised' = ""
                /\ Cardinality({e \in Group(name) : checked(heap'[e])}) = 1
           ELSE raised' = "UnsupportedFormError"]_vars

\* what get_field(name) gives, case by case
FieldOf(name) ==
    LET G == Group(name)
        C == {e \in G : checked(heap[e])}
    IN  IF G = {} THEN Raises("InputNotFoundError")
        ELSE IF Cardinality(G) = 1 THEN value(heap, CHOOSE e \in G : TRUE)
        ELSE IF ~AllRadio(G) THEN Raises("UnsupportedFormError")
        ELSE IF C = {} THEN Value(None)
        ELSE IF Cardinality(C) = 1 THEN value(heap, CHOOSE e \in C : TRUE)
        ELSE Raises("UnsupportedFormError")

C11_SetGet ==
    [][(/\ log # <<>>
        /\ LastToken[1] = "set_field"
        /\ raised = ""
        /\ log' = Append(log, <<"get_field", LastToken[2]>>))
       => (raised' = "" /\ result' = LastToken[3])]_vars

\* C12: calling set_field(name, v) a second time leaves the form as the first call
\* left it; when the first call raised, the second raises the same error
C12_Idempotent ==
    [][(log # <<>> /\ LastToken[1] = "set_field" /\ log' = Append(log, LastToken))
       => (heap' = heap /\ raised' = raised)]_vars

\* set_field was called twice on a group of several radio buttons and returned,
\* one of them is checked
C12_Witness ==
    /\ Len(log) = 2
    /\ log[1] = log[2]
    /\ log[1][1] = "set_field"
    /\ raised = ""
    /\ Cardinality(Group(log[1][2])) > 1
    /\ \E e \in Group(log[1][2]) : checked(heap[e])

\* the pairs the form data has for element e
PairsOf(e) ==
    LET el == heap[e]
        nm == Get(el, "name")
        val == Get(el, "value")
        opts == SelectSeq(iter(heap, e),
                          LAMBDA o : heap[o].tag = "option" /\ "selected" \in DOMAIN heap[o].attrib)
    IN  IF "disabled" \in DOMAIN el.attrib \/ nm = None \/ nm = "" THEN <<>>
        ELSE IF el.tag = "input" /\ type_of(el) \in {"radio", "checkbox"}
        THEN (IF "checked" \in DOMAIN el.attrib
              THEN << <<nm, IF val \in {None, ""} THEN "on" ELSE val>> >>
              ELSE <<>>)
        ELSE IF el.tag = "select"
        THEN [k \in DOMAIN opts |->
                <<nm, IF Get(heap[opts[k]], "value") \in {None, ""}
                      THEN StrOf(heap[opts[k]].text)
                      ELSE Get(heap[opts[k]], "value")>>]
        ELSE IF el.tag = "textarea" THEN << <<nm, StrOf(el.text)>> >>
        ELSE << <<nm, IF val = None THEN "" ELSE val>> >>

RECURSIVE PairsFrom(_)
PairsFrom(els) == IF els = <<>> THEN <<>> ELSE PairsOf(els[1]) \o PairsFrom(Tail(els))

\* C13: get_formdata yields, in document order of the form's input, textarea and
\* select elements: nothing for a disabled element or one without a non-empty
\* name; (name, value or "on") for a radio button or checkbox only when checked;
\* one pair per selected option of a select, in option order, with the option's
\* value or else its text; one pair (name, value) for any other element
C13_Formdata ==
    [][log' = Append(log, <<"get_formdata">>) =>
        /\ raised' = ""
        /\ result' = PairsFrom(SelectSeq(iter(heap, 1),
                                         LAMBDA e : heap[e].tag \in {"input", "textarea", "select"}))
        /\ heap' = heap]_log

\* the form data of a form with a checked radio button and a select with two
\* selected options, after a set_field call
C13_Witness ==
    /\ Len(log) = 2
    /\ log[2] = <<"get_formdata">>
    /\ Len(result) = 3
    /\ \E e \in DOMAIN heap : heap[e].tag = "select"

(***************************************************************************)
(* Selects: options.set_selected(values) and select.value = v on the       *)
(* selects of the forms of FormInit.                                       *)
(***************************************************************************)
\* the values asked for: those of the options, and one no option has
SelectValues == {"a", "b", "on"}

Selects == {e \in DOMAIN heap : heap[e].tag = "select"}

DoSetSelected(sel, values) ==
    FieldCalling /\ Returns(set_selected(heap, sel, values), <<"set_selected", sel, values>>)

DoSetSelectValue(sel, val) ==
    FieldCalling /\ Returns(set_value(heap, sel, val), <<"set_selected", sel, {val}>>)

SelectNext ==
    \/ \E sel \in Selects, values \in SUBSET SelectValues : DoSetSelected(sel, values)
    \/ \E sel \in Selects, val \in SelectValues : DoSetSelectValue(sel, val)

SelectSpec == FormInit /\ [][SelectNext]_vars

\* the option elements below a select, and the value of an option
OptionsOf(sel) == {o \in Range(iter(heap, sel)) : heap[o].tag = "option"}

ValueOfOption(o) ==
    IF Get(heap[o], "value") \in {None, ""} THEN StrOf(heap[o].text) ELSE Get(heap[o], "value")

\* C14: set_selected(values), and select.value = v with values = {v}: when every
\* requested value is the value of some option, afterwards an option is selected
\* exactly when its value is requested; otherwise UnsupportedFormError is raised
\* and no option's selected state has changed
C14_SetSelected ==
    [][\A sel \in Selects, values \in SUBSET SelectValues :
        log' = Append(log, <<"set_selected", sel, values>>) =>
            IF values \subseteq {ValueOfOption(o) : o \in OptionsOf(sel)}
            THEN /\ raised' = ""
                 /\ \A o \in OptionsOf(sel) :
                       ("selected" \in DOMAIN heap'[o].attrib) <=> (ValueOfOption(o) \in values)
            ELSE /\ raised' = "UnsupportedFormError"
                 /\ \A o \in OptionsOf(sel) :
                       ("selected" \in DOMAIN heap'[o].attrib)
                           <=> ("selected" \in DOMAIN heap[o].attrib)]_vars

\* a second set_selected has unselected one of two selected options
C14_Witness ==
    /\ Len(log) = 2
    /\ log[1][1] = "set_selected" /\ log[1][3] = {"a", "b"}
    /\ log[2][1] = "set_selected" /\ log[2][3] = {"b"}
    /\ log[1][2] = log[2][2]
    /\ raised = ""
    /\ \E o \in OptionsOf(log[2][2]) : "selected" \in DOMAIN heap[o].attrib
    /\ \E o \in OptionsOf(log[2][2]) : "selected" \notin DOMAIN heap[o].attrib

(***************************************************************************)
(* Charset detection: detect_charset on documents made of an optional      *)
(* byte-order mark, an optional XML declaration and up to MaxMetas meta    *)
(* tags, with an optional external hint.                                   *)
(***************************************************************************)
MaxMetas == 1

\* a label that contains the character U+0000
NulLabel == "a<NUL>b"

Found(n) == [raised |-> "", name |-> n]

\* codecs.lookup(label).name on the labels the model uses
Lookup(label) ==
    CASE label \in {"utf-8", "UTF8"} -> Found("utf-8")
      [] label \in {"latin-1", "iso8859-1"} -> Found("iso8859-1")
      [] label \in {"us-ascii", "ascii"} -> Found("ascii")
      [] label \in {"windows-1252", "cp1252"} -> Found("cp1252")
      [] label \in {"utf-16", "utf-16-be", "utf-16-le", "koi8-r"} -> Found(label)
      [] label = NulLabel -> [raised |-> "ValueError", name |-> None]
      [] OTHER -> [raised |-> "LookupError", name |-> None]

\* codec.name.startswith('utf-16')
IsUtf16(n) == n \in {"utf-16", "utf-16-be", "utf-16-le"}

\* ad['content'].lower().split('charset=')[-1].strip(), None when the content
\* has no 'charset='
ContentCharset(content) ==
    CASE content = "text/html; CHARSET=KOI8-R" -> "koi8-r"
      [] content = "text/html; charset=bogus" -> "bogus"
      [] OTHER -> None

\* the charset an element's attributes name, with the exception of a valueless
\* http-equiv or content
MetaCandidate(tag, ad) ==
    IF tag # "meta" THEN Value(None)
    ELSE IF "charset" \in DOMAIN ad THEN Value(ad["charset"])
    ELSE IF "http-equiv" \in DOMAIN ad /\ "content" \in DOMAIN ad
    THEN IF ad["http-equiv"] = None THEN Raises("AttributeError")
         ELSE IF ad["http-equiv"] # "Content-Type" THEN Value(None)
         ELSE IF ad["content"] = None THEN Raises("AttributeError")
         ELSE Value(ContentCharset(ad["content"]))
    ELSE Value(None)

\* _CharsetDetectingHTMLParser.handle_starttag: the parser's charset after the tag
charset_starttag(charset, tag, attrs) ==
    IF charset # None THEN Value(charset)
    ELSE LET c == MetaCandidate(tag, DictOf(attrs))
         IN  IF c.raised # "" \/ c.value = None THEN c
             ELSE IF Lookup(c.value).raised = "LookupError" THEN Value(None)
             ELSE IF Lookup(c.value).raised # "" THEN Raises(Lookup(c.value).raised)
             ELSE IF IsUtf16(Lookup(c.value).name) THEN Value("utf-8")
             ELSE c

\* parser.feed: the start tags of the document, one after the other
RECURSIVE charset_feed(_, _)
charset_feed(charset, tags) ==
    IF tags = <<>> THEN Value(charset)
    ELSE LET c == charset_starttag(charset, tags[1][1], tags[1][2])
         IN  IF c.raised # "" THEN c ELSE charset_feed(c.value, Tail(tags))

\* the label of a byte-order mark
BomCharset(bom) ==
    CASE bom = "EFBBBF" -> "utf-8"
      [] bom = "FEFF" -> "utf-16-be"
      [] bom = "FFFE" -> "utf-16-le"
      [] OTHER -> None

\* the last steps of detect_charset: default, registry lookup, replacement
Canonical(c) ==
    IF c.raised # "" THEN c
    ELSE LET label == IF c.value = None THEN "cp1252" ELSE c.value
             info == Lookup(label)
         IN  IF info.raised = "LookupError" THEN Value("cp1252")
             ELSE IF info.raised # "" THEN Raises(info.raised)
             ELSE IF info.name \in {"iso8859-1", "ascii"} THEN Value("cp1252")
             ELSE Value(info.name)

\* the charset after the XML declaration step
WithXml(c, html) == IF c.raised = "" /\ c.value = None THEN Value(html.xml) ELSE c

\* the charset after the meta step
WithMeta(c, html) == IF c = None THEN charset_feed(None, html.tags) ELSE Value(c)

\* detect_charset with the meta tags looked at before the byte-order mark
detect_charset_MetaFirst(html, charset) ==
    Canonical(WithXml(IF charset # None THEN Value(charset)
                      ELSE IF charset_feed(None, html.tags) # Value(None)
                      THEN charset_feed(None, html.tags)
                      ELSE Value(BomCharset(html.bom)), html))

\* detect_charset
detect_charset(html, charset) ==
    Canonical(WithXml(WithMeta(IF charset = None THEN BomCharset(html.bom) ELSE charset,
                               html), html))

\* the start tags of the documents: meta tags with a known, an unknown, a UTF-16,
\* a Latin-1, a valueless and a NUL-holding charset, with http-equiv and content,
\* with a valueless http-equiv, and a tag that is no meta
CharsetTags ==
    { <<"meta", << <<"charset", "UTF8">> >> >>,
      <<"meta", << <<"charset", "bogus">> >> >>,
      <<"meta", << <<"charset", "utf-16">> >> >>,
      <<"meta", << <<"charset", "latin-1">> >> >>,
      <<"meta", << <<"charset", None>> >> >>,
      <<"meta", << <<"charset", NulLabel>> >> >>,
      <<"meta", << <<"http-equiv", "Content-Type">>,
                   <<"content", "text/html; CHARSET=KOI8-R">> >> >>,
      <<"meta", << <<"http-equiv", None>>,
                   <<"content", "text/html; charset=bogus">> >> >>,
      <<"p", << <<"charset", "UTF8">> >> >> }

Boms == {None, "EFBBBF", "FEFF", "FFFE"}

\* the encoding of the XML declaration at the start of the bytes, if there is one
XmlEncodings == {None, "utf-8", "bogus"}

Htmls ==
    [bom : Boms, xml : XmlEncodings,
     tags : UNION {[1..n -> CharsetTags] : n \in 0..MaxMetas}]

\* no hint, or the charset of the Content-Type header
Hints == {None, "utf-8", "latin-1", "us-ascii", "utf-16", "bogus", "", NulLabel}

CharsetInit ==
    /\ heap = <<>>
    /\ element_stack = <<>>
    /\ format_stack = <<>>
    /\ raised = ""
    /\ result = None
    /\ phase = "charset"
    /\ log = <<>>
    /\ consumed = <<>>

DetectCharset(html, charset) ==
    /\ phase = "charset" /\ log = <<>>
    /\ Got(detect_charset(html, charset), <<"detect_charset", html, charset>>)

CharsetNext == \E html \in Htmls, charset \in Hints : DetectCharset(html, charset)

CharsetSpec == CharsetInit /\ [][CharsetNext]_vars

\* the document and the hint of the call made
Detected == phase = "charset" /\ log # <<>>

Html == log[1][2]

Hint == log[1][3]

Unknown(label) == Lookup(label).raised # ""

\* C15: detect_charset returns a label that resolves in the registry and is
\* canonical, never iso-8859-1 and never us-ascii; such a hint, and every hint
\* the registry does not know, comes out as windows-1252 (cp1252)
C15_Canonical ==
    Detected =>
        /\ raised = ""
        /\ Lookup(result) = Found(result)
        /\ result \notin {"iso8859-1", "ascii"}
        /\ (Hint # None /\ (Unknown(Hint) \/ Lookup(Hint).name \in {"iso8859-1", "ascii"}))
              => result = "cp1252"

\* the bytes without byte-order mark, XML declaration and tags
EmptyHtml == [bom |-> None, xml |-> None, tags |-> <<>>]

\* C16: with a hint the outcome is that of any other document with the same
\* hint, and a hint the registry does not know yields windows-1252 (cp1252)
C16_HintAlone ==
    (Detected /\ Hint # None) =>
        /\ [raised |-> raised, value |-> result] = detect_charset(EmptyHtml, Hint)
        /\ Unknown(Hint) => (raised = "" /\ result = "cp1252")

\* C17: without a hint, bytes that begin with a byte-order mark get the label of
\* the mark, whatever meta tags follow
C17_BomWins ==
    (Detected /\ Hint = None /\ Html.bom # None) =>
        /\ raised = ""
        /\ result = (CASE Html.bom = "EFBBBF" -> "utf-8"
                       [] Html.bom = "FEFF" -> "utf-16-be"
                       [] Html.bom = "FFFE" -> "utf-16-le")

\* a UTF-16 byte-order mark before a meta tag that names KOI8-R
C17_Witness ==
    /\ Detected /\ Hint = None
    /\ Html.bom = "FFFE"
    /\ Html.tags # <<>>
    /\ Html.tags[1][2] = << <<"http-equiv", "Content-Type">>,
                            <<"content", "text/html; CHARSET=KOI8-R">> >>
    /\ result = "utf-16-le"

\* the label a meta tag proposes, None if it proposes none
Proposed(tag) ==
    LET ad == DictOf(tag[2])
    IN  IF tag[1] # "meta" THEN None
        ELSE IF "charset" \in DOMAIN ad THEN ad["charset"]
        ELSE IF "http-equiv" \in DOMAIN ad /\ "content" \in DOMAIN ad /\ ad["content"] # None
        THEN ContentCharset(ad["content"])
        ELSE None

\* C18: without a hint, bytes with no byte-order mark and no meta tag whose
\* proposed label resolves in the registry are windows-1252 (cp1252)
C18_Default ==
    (/\ Detected /\ Hint = None /\ Html.bom = None
     /\ \A i \in DOMAIN Html.tags :
           Proposed(Html.tags[i]) = None \/ Unknown(Proposed(Html.tags[i])))
    => (raised = "" /\ result = "cp1252")

(***************************************************************************)
(* CSS selectors: _build_css_selector and query_selector_all.  A selector  *)
(* string is the sequence of the lexemes the regular expressions of        *)
(* _build_css_selector consume one after the other: <<"*">>, <<"tag", t>>, *)
(* <<"class", c>>, <<"id", i>>, <<"contains", text>>, <<">">> (a > with    *)
(* the whitespace around it), <<" ">> (whitespace) and <<"[">> (a          *)
(* character no expression matches).  A matcher is the sequence of the     *)
(* tests it conjoins, <<>> for None; a selector function is the sequence   *)
(* of the <<generator, matcher>> pairs chained behind start.               *)
(***************************************************************************)
MaxNodes == 5

\* HtmlElement.class_list
class_list(el) == Range(SplitWs(Chars(Or(Get(el, "class"), ""))))

\* text in el.text_content
Contains(t, text) == \E i \in 0..(Len(t) - Len(text)) : SubSeq(t, i + 1, i + Len(text)) = text

\* _matcher_tagname, _matcher_class, _matcher_id, _matcher_contains and lambda el: True
Matches(h, e, test) ==
    CASE test[1] = "*" -> TRUE
      [] test[1] = "tag" -> Casefold(h[e].tag) = Casefold(test[2])
      [] test[1] = "class" -> Chars(test[2]) \in class_list(h[e])
      [] test[1] = "id" -> Get(h[e], "id") = test[2]
      [] test[1] = "contains" -> Contains(text_content(h, e), test[2])

\* _matcher_and: every test of the matcher holds
matcher_and(h, e, matcher) == \A i \in DOMAIN matcher : Matches(h, e, matcher[i])

\* _descendant_or_self_selector
descendant_or_self_selector(h, matcher, el) ==
    SelectSeq(iter(h, el), LAMBDA e : matcher_and(h, e, matcher))

\* _immediate_child_selector
immediate_child_selector(h, matcher, el) ==
    SelectSeq(h[el].children, LAMBDA e : matcher_and(h, e, matcher))

\* _chain_selector: b(e) for every e of a(el), where els is a(el) and gen b
RECURSIVE chain_selector(_, _, _)
\* _descendant_selector: start chained with _descendant_or_self_selector
descendant_selector(h, matcher, el) ==
    chain_selector(h, h[el].children, <<"descendant_or_self", matcher>>)

\* the selector function a generator makes of a matcher, applied to el
Generate(h, gen, el) ==
    CASE gen[1] = "descendant_or_self" -> descendant_or_self_selector(h, gen[2], el)
      [] gen[1] = "descendant" -> descendant_selector(h, gen[2], el)
      [] gen[1] = "immediate_child" -> immediate_child_selector(h, gen[2], el)

chain_selector(h, els, gen) ==
    IF els = <<>> THEN <<>>
    ELSE Generate(h, gen, els[1]) \o chain_selector(h, Tail(els), gen)

\* sel(el): start yields the children of el, every pair of sel is chained behind it
RECURSIVE Select(_, _, _)
Select(h, sel, el) ==
    IF sel = <<>> THEN h[el].children
    ELSE chain_selector(h, Select(h, Front(sel), el), Last(sel))

\* the elements of els not in seen, each once, in the order of their first place
RECURSIVE Unseen(_, _)
Unseen(els, seen) ==
    IF els = <<>> THEN <<>>
    ELSE IF els[1] \in seen THEN Unseen(Tail(els), seen)
    ELSE <<els[1]>> \o Unseen(Tail(els), seen \cup {els[1]})

\* _uniqueify_selector without the seen set
uniqueify_selector_NoSeen(els) == els

\* _uniqueify_selector, on the elements inp(el) yields
uniqueify_selector(els) == Unseen(els, {})

\* the loop of _build_css_selector and the commit of the pending matcher after it
RECURSIVE build_css_selector(_, _, _, _)
build_css_selector(s, selgen, sel, matcher) ==
    IF s = <<>>
    THEN Value(IF matcher # <<>> THEN Append(sel, <<selgen, matcher>>) ELSE sel)
    ELSE IF s[1][1] \in {"*", "tag", "class", "id", "contains"}
    THEN build_css_selector(Tail(s), selgen, sel, Append(matcher, s[1]))
    ELSE IF s[1][1] = ">" /\ matcher # <<>>
    THEN build_css_selector(Tail(s), "immediate_child", Append(sel, <<selgen, matcher>>), <<>>)
    ELSE IF s[1][1] = " " /\ matcher # <<>>
    THEN build_css_selector(Tail(s), "descendant", Append(sel, <<selgen, matcher>>), <<>>)
    ELSE Raises("InvalidSelectorError")

\* the elements the built selector yields for el: nothing when sel is start
Yield(h, built, el) ==
    IF built.raised # "" THEN built
    ELSE IF built.value = <<>> THEN Value(<<>>)
    ELSE Value(uniqueify_selector(Select(h, built.value, el)))

\* HtmlElement.query_selector_all, the iterator run to its end
query_selector_all(h, el, s) ==
    Yield(h, build_css_selector(s, "descendant_or_self", <<>>, <<>>), el)

\* the two kinds of element of the trees: <div class="a b">t</div> and <p class=b id=x>
NodeKinds ==
    {[HtmlElement("div", DictOf(<< <<"class", "a b">> >>), None) EXCEPT !.text = <<"t">>],
     HtmlElement("p", DictOf(<< <<"class", "b">>, <<"ID", "x">> >>), None)}

\* the ancestors of node i and i itself, under the parent map p
RECURSIVE Chain(_, _)
Chain(p, i) == IF i = 1 THEN {1} ELSE {i} \cup Chain(p, p[i])

\* the trees of n nodes numbered in document order: the parent of a node is
\* the node before it or an ancestor of that node
ParentMaps(n) ==
    {p \in [2..n -> 1..n] : \A i \in 2..n : p[i] < i /\ p[i] \in Chain(p, i - 1)}

\* the elements of a set of numbers, ascending
RECURSIVE Ascending(_)
Ascending(S) ==
    IF S = {} THEN <<>>
    ELSE LET m == CHOOSE x \in S : \A y \in S : x <= y IN <<m>> \o Ascending(S \ {m})

\* the heap of the tree with parent map p and the kinds k of the nodes
TreeOf(p, k) ==
    [i \in DOMAIN k |-> [k[i] EXCEPT !.children = Ascending({j \in DOMAIN p : p[j] = i})]]

\* the compound selectors: *, DIV, .a, #x and p:contains(t)
Compounds ==
    {<< <<"*">> >>, << <<"tag", "DIV">> >>, << <<"class", "a">> >>, << <<"id", "x">> >>,
     << <<"tag", "p">>, <<"contains", <<"t">>>> >>}

Combinators == {<<" ">>, <<">">>}

\* the selector strings: the empty one, 'A', 'A B', 'A > B', two combinators
\* over * and DIV, and strings with a combinator or a stray character out of place
Selectors ==
    {<<>>} \cup Compounds
    \cup {a \o <<c>> \o b : a \in Compounds, c \in Combinators, b \in Compounds}
    \cup {<< <<"*">>, c, <<"tag", "DIV">>, d, <<"*">> >> : c \in Combinators, d \in Combinators}
    \cup {<< c, <<"*">> >> : c \in Combinators}
    \cup {<< <<"*">>, c >> : c \in Combinators}
    \cup {<< <<"*">>, <<">">>, <<">">>, <<"*">> >>, << <<"tag", "DIV">>, <<"[">> >>}

SelectorInit ==
    /\ \E n \in 1..MaxNodes : \E p \in ParentMaps(n), k \in [1..n -> NodeKinds] :
          heap = TreeOf(p, k)
    /\ element_stack = <<>>
    /\ format_stack = <<>>
    /\ raised = ""
    /\ result = None
    /\ phase = "selector"
    /\ log = <<>>
    /\ consumed = <<>>

QuerySelectorAll(el, s) ==
    /\ phase = "selector" /\ log = <<>>
    /\ Got(query_selector_all(heap, el, s), <<"query_selector_all", el, s>>)

\* the context elements queried: the root, and its first child, an element
\* with an ancestor above it
Contexts == {1, 2} \cap DOMAIN heap

SelectorNext == \E el \in Contexts, s \in Selectors : QuerySelectorAll(el, s)

SelectorSpec == SelectorInit /\ [][SelectorNext]_vars

\* a query has returned its elements
Queried == phase = "selector" /\ log # <<>> /\ raised = ""

Context == log[1][2]

Selector == log[1][3]

\* the parent of an element and its ancestors, read off the children lists
ParentsOf(e) == {x \in DOMAIN heap : e \in Range(heap[x].children)}

RECURSIVE AncestorsOf(_)
AncestorsOf(e) ==
    LET P == ParentsOf(e) IN P \cup UNION {AncestorsOf(x) : x \in P}

\* e is a proper descendant of the context
Below(e) == Context \in AncestorsOf(e)

\* the elements 'A B' (c a whitespace) and 'A > B' (c a >) stand for
Combined(a, c, b) ==
    {e \in DOMAIN heap :
        /\ Below(e)
        /\ matcher_and(heap, e, b)
        /\ \E x \in (IF c = <<">">> THEN ParentsOf(e) ELSE AncestorsOf(e)) :
              Below(x) /\ matcher_and(heap, x, a)}

\* C19: for selectors 'A B' and 'A > B', query_selector_all yields exactly the
\* proper descendants of the context that satisfy B and have an ancestor
\* (their parent, for >) that satisfies A and is itself a proper descendant of
\* the context, and yields no element more than once
C19_Combinators ==
    Queried =>
        \A a \in Compounds, c \in Combinators, b \in Compounds :
            (Selector = a \o <<c>> \o b) =>
                /\ Range(result) = Combined(a, c, b)
                /\ \A i, j \in DOMAIN result : result[i] = result[j] => i = j

\* 'A B' has returned an element that lies below two nested elements satisfying
\* A, and the context itself satisfies A as well
C19_Witness ==
    /\ Queried
    /\ \E a \in Compounds, b \in Compounds :
          /\ Selector = a \o << <<" ">> >> \o b
          /\ matcher_and(heap, Context, a)
          /\ \E e \in Range(result) : \E x, y \in AncestorsOf(e) :
                /\ x # y /\ Below(x) /\ Below(y)
                /\ matcher_and(heap, x, a) /\ matcher_and(heap, y, a)

\* the place of an element in the document order below the context
PlaceOf(e) == CHOOSE i \in DOMAIN iter(heap, Context) : iter(heap, Context)[i] = e

\* C20: query_selector_all yields the matching elements in document order
\* (depth-first pre-order), for every supported selector
C20_DocumentOrder ==
    Queried =>
        \A i, j \in DOMAIN result : i < j => PlaceOf(result[i]) < PlaceOf(result[j])

\* a selector string that starts with a combinator, has two combinators in a
\* row, ends with a > or holds a character of no selector
Malformed(s) ==
    /\ s # <<>>
    /\ \/ s[1] \in Combinators
       \/ \E i \in 1..(Len(s) - 1) : s[i] \in Combinators /\ s[i + 1] \in Combinators
       \/ s[Len(s)] = <<">">>
       \/ \E i \in DOMAIN s : s[i] = <<"[">>

\* C21: a selector string that is not a sequence of compound selectors
\* separated by single combinators (it starts with a combinator, has two in a
\* row, ends with a dangling > or holds a stray character) fails with
\* InvalidSelectorError, and no element is yielded
C21_InvalidSelector ==
    (phase = "selector" /\ log # <<>> /\ Malformed(Selector)) =>
        (raised = "InvalidSelectorError" /\ result = None)

(***************************************************************************)
(* parsefragmentstr on fragments of up to MaxPieces pieces: start and end  *)
(* tags of p and b, a <body> start tag, the text x and a blank.            *)
(***************************************************************************)
MaxPieces == 4

FragmentPieces ==
    {<<"start", "p", <<>>>>, <<"end", "p">>, <<"start", "b", <<>>>>, <<"start", "body", <<>>>>,
     <<"text", <<"x">>>>, <<"text", <<" ">>>>}

Fragments == UNION {[1..n -> FragmentPieces] : n \in 0..MaxPieces}

FragmentInit ==
    /\ heap = <<>>
    /\ element_stack = <<>>
    /\ format_stack = <<>>
    /\ raised = ""
    /\ result = None
    /\ phase = "fragment"
    /\ log = <<>>
    /\ consumed = <<>>

ParseFragment(pieces) ==
    /\ phase = "fragment" /\ log = <<>>
    /\ ReturnsElement(parsefragmentstr(heap, pieces), <<"parsefragmentstr", pieces>>)

FragmentNext == \E pieces \in Fragments : ParseFragment(pieces)

FragmentSpec == FragmentInit /\ [][FragmentNext]_vars

\* the tree parsehtmlstr builds of the fragment given
Parsed == parsehtmlstr(log[1][2]).heap

\* the root has one child, blank text, and the child a blank tail
OnlyChild ==
    /\ Len(Parsed[1].children) = 1
    /\ IsBlank(Parsed[1].text)
    /\ IsBlank(Parsed[Parsed[1].children[1]].tail)

\* the characters of the text pieces of a fragment that are no whitespace
RECURSIVE Inked(_)
Inked(pieces) ==
    IF pieces = <<>> THEN <<>>
    ELSE (IF pieces[1][1] = "text"
          THEN SelectSeq(UnescapeText(pieces[1][2]), LAMBDA c : c \notin Whitespace)
          ELSE <<>>) \o Inked(Tail(pieces))

MaxRedirects == 2

\* a response: status, Location and Refresh headers (None when absent), body
Response(status, location, refresh, tags) ==
    [status |-> status, location |-> location, refresh |-> refresh,
     body |-> [bom |-> None, xml |-> None, tags |-> tags]]

\* <meta http-equiv=... content=...>
Meta(equiv, content) == <<"meta", << <<"http-equiv", equiv>>, <<"content", content>> >> >>

\* what a server may answer
Responses ==
    { Response(200, None, None, <<>>),
      Response(404, None, None, <<>>),
      Response(302, "/a", None, <<>>),
      Response(307, "/a", "0; url=/n", <<>>),
      Response(302, None, None, <<>>),
      Response(301, " ", None, <<>>),
      Response(200, "/a", None, <<>>),
      Response(200, None, "0; url=/n", <<>>),
      Response(200, None, "soon", <<>>),
      Response(404, None, "0; url=/n", <<>>),
      Response(200, None, None, <<Meta("Refresh", "0; url=/m")>>),
      Response(200, None, "0; url=/n", <<Meta("Refresh", "0; url=/m")>>),
      Response(200, None, None, <<Meta("Refresh", "soon")>>),
      Response(200, None, None, <<Meta("Content-Type", "0; url=/m")>>),
      Response(404, None, None, <<Meta("Refresh", "0; url=/m")>>),
      Response(302, "/a", None, <<Meta(None, "0; url=/m")>>) }

\* re.fullmatch('\s*\d+\s*;\s*[uU][rR][lL]\s*=(.+)', v): group 1 stripped, None
\* when the value does not match
RefreshUrl(v) ==
    CASE v = "0; url=/n" -> "/n"
      [] v = "0; url=/m" -> "/m"
      [] OTHER -> None

\* str.strip() on the Location values the model uses
Strip(v) == IF v = " " THEN "" ELSE v

\* the loop over document_element.iter('meta'): the last meta refresh wins
RECURSIVE MetaRedirect(_, _)
MetaRedirect(redirect_to, tags) ==
    IF tags = <<>> THEN redirect_to
    ELSE LET ad == DictOf(FixupNone(tags[1][2]))
             h == IF "http-equiv" \in DOMAIN ad THEN ad["http-equiv"] ELSE ""
             c == IF "content" \in DOMAIN ad THEN ad["content"] ELSE ""
         IN  MetaRedirect(IF tags[1][1] = "meta" /\ h \in {"Refresh", "refresh"}
                             /\ RefreshUrl(c) # None
                          THEN RefreshUrl(c) ELSE redirect_to,
                          Tail(tags))

\* redirect_to of Browser.open, for the page of a response
RedirectTo(r) ==
    LET standard == IF r.status \in {301, 302, 303, 307} /\ r.location # None
                    THEN Strip(r.location) ELSE None
        header == IF r.status = 200 /\ r.refresh # None /\ RefreshUrl(r.refresh) # None
                  THEN RefreshUrl(r.refresh) ELSE standard
    IN  IF r.status = 200 THEN MetaRedirect(header, r.body.tags) ELSE header

\* Browser.open after the request: what the call does with the response.
\* Document(self, response) detects the charset of the body and may raise
browser_open(maximum_redirects, r) ==
    IF detect_charset(r.body, None).raised # ""
    THEN [raised |-> detect_charset(r.body, None).raised, follow |-> FALSE, page |-> FALSE]
    ELSE IF RedirectTo(r) \notin {None, ""}
    THEN IF maximum_redirects > 0
         THEN [raised |-> "", follow |-> TRUE, page |-> TRUE]
         ELSE [raised |-> "TooManyRedirectsException", follow |-> FALSE, page |-> TRUE]
    ELSE IF r.status = 200 THEN [raised |-> "", follow |-> FALSE, page |-> TRUE]
    ELSE [raised |-> "HTTPException", follow |-> FALSE, page |-> TRUE]

BrowserInit ==
    /\ heap = <<>>
    /\ element_stack = <<>>
    /\ format_stack = <<>>
    /\ raised = ""
    /\ result = 0
    /\ phase = "browser"
    /\ log = <<>>
    /\ consumed = <<>>

\* one call of Browser.open: the request is sent and answered; the result is
\* the number of the request whose page is returned or carried by the exception
Request(out, call) ==
    /\ log' = Append(log, call)
    /\ raised' = out.raised
    /\ result' = IF out.page /\ ~out.follow THEN Len(log) + 1 ELSE 0
    /\ phase' = IF out.follow THEN "browser" ELSE "done"
    /\ UNCHANGED <<heap, element_stack, format_stack, consumed>>

\* browser.open(url, maximum_redirects=n)
BrowserOpen(n, r) ==
    /\ phase = "browser" /\ log = <<>>
    /\ Request(browser_open(n, r), <<"open", n, r>>)

\* page.open(redirect_to, maximum_redirects=maximum_redirects-1), by way of
\* _DocumentBackend.open
DocumentOpen(r) ==
    /\ phase = "browser" /\ log # <<>>
    /\ Request(browser_open(Last(log)[2] - 1, r), <<"open", Last(log)[2] - 1, r>>)

BrowserNext ==
    \/ \E n \in 0..MaxRedirects, r \in Responses : BrowserOpen(n, r)
    \/ \E r \in Responses : DocumentOpen(r)

BrowserSpec == BrowserInit /\ [][BrowserNext]_vars

\* a response that redirects: 301/302/303/307 with a Location, a Refresh header
\* or a meta refresh in a 200 response
Redirects(r) ==
    \/ r.status \in {301, 302, 303, 307} /\ r.location \notin {None, " "}
    \/ r.status = 200 /\ r.refresh # None /\ RefreshUrl(r.refresh) # None
    \/ r.status = 200 /\ \E i \in DOMAIN r.body.tags :
          /\ r.body.tags[i][1] = "meta"
          /\ <<"http-equiv", "Refresh">> \in Range(r.body.tags[i][2])
          /\ \E c \in {"0; url=/m"} : <<"content", c>> \in Range(r.body.tags[i][2])

\* no more than n + 1 requests are made, every request but the last was
\* answered by a redirect, and the budget goes down by one with every redirect
C23_Bounded ==
    (phase \in {"browser", "done"} /\ log # <<>>) =>
        /\ Len(log) <= log[1][2] + 1
        /\ \A i \in DOMAIN log : log[i][2] = log[1][2] - (i - 1)
        /\ \A i \in 1..(Len(log) - 1) : Redirects(log[i][3])

\* C23: Browser.open with maximum_redirects = n makes at most n + 1 requests
\* and follows at most n redirects, the budget going down by one with each;
\* when the response to request n + 1 redirects again, the call raises
\* TooManyRedirectsException carrying the page of that response
C23_TooManyRedirects ==
    /\ C23_Bounded
    /\ (phase = "done" /\ Len(log) = log[1][2] + 1 /\ Redirects(Last(log)[3])) =>
          (raised = "TooManyRedirectsException" /\ result = Len(log))

(***************************************************************************)
(* HtmlFormElement.submit: the request a form of a document makes.  A URL  *)
(* is kept split as urlsplit splits it: the part before the query, the     *)
(* query and the fragment; a query is the sequence of its characters and   *)
(* %XX escapes.                                                            *)
(***************************************************************************)
\* response.geturl() of the document the form belongs to
DocumentUrl == "http://h/doc?d=1"

\* urlsplit on the URLs the model uses
Url(s) ==
    CASE s = "http://h/p" -> [loc |-> "http://h/p", query |-> <<>>, fragment |-> ""]
      [] s = "http://h/p?old=1" ->
            [loc |-> "http://h/p", query |-> <<"o", "l", "d", "=", "1">>, fragment |-> ""]
      [] s = "http://h/p?old=1#f" ->
            [loc |-> "http://h/p", query |-> <<"o", "l", "d", "=", "1">>, fragment |-> "f"]
      [] s = "http://h/doc?d=1" ->
            [loc |-> "http://h/doc", query |-> <<"d", "=", "1">>, fragment |-> ""]

\* HtmlFormElement.action of a form with a backend; the action attributes of
\* the model are absolute URLs, which urljoin(baseuri, action) returns as they are
form_action(h, form) ==
    IF Or(Get(h[form], "action"), "") = "" THEN DocumentUrl ELSE Get(h[form], "action")

\* HtmlFormElement.method
form_method(h, form) ==
    IF Or(Get(h[form], "method"), "") \in {"post", "POST", "Post"} THEN "POST" ELSE "GET"

\* urllib.parse.quote_plus of the encoded bytes of a name or value
quote_plus(v) ==
    CASE v = "" -> <<>>
      [] v = "a b" -> <<"a", "+", "b">>
      [] v = "q&" -> <<"q", "%26">>
      [] v = "on" -> <<"o", "n">>
      [] OTHER -> <<v>>

\* urllib.parse.urlencode of a list of pairs
RECURSIVE urlencode(_)
urlencode(pairs) ==
    IF pairs = <<>> THEN <<>>
    ELSE quote_plus(pairs[1][1]) \o <<"=">> \o quote_plus(pairs[1][2])
            \o (IF Len(pairs) > 1 THEN <<"&">> \o urlencode(Tail(pairs)) ELSE <<>>)

\* HtmlFormElement.get_formdata_query
get_formdata_query(h, form) == urlencode(get_formdata(h, form))

\* urljoin(base, '?' + query): the reference has no path, so the path of the
\* base is kept, and its query too when the reference has none; the
\* fragment of the base is dropped
urljoin_query(base, query) ==
    [loc |-> base.loc, query |-> IF query = <<>> THEN base.query ELSE query, fragment |-> ""]

\* HtmlFormElement.submit: the URL and the data handed to _DocumentBackend.open
submit(h, form) ==
    IF form_method(h, form) = "POST"
    THEN [method |-> "POST", url |-> Url(form_action(h, form)),
          data |-> get_formdata_query(h, form)]
    ELSE [method |-> "GET",
          url |-> urljoin_query(Url(form_action(h, form)), get_formdata_query(h, form)),
          data |-> <<>>]

\* the controls of the forms submitted
SubmitKinds ==
    {Inp(<< <<"name", "n">>, <<"value", "a">> >>),
     Inp(<< <<"name", "m">>, <<"value", "a b">> >>),
     Inp(<< <<"name", "q&">> >>),
     Inp(<< <<"type", "radio">>, <<"name", "n">> >>),
     Inp(<< <<"type", "checkbox">>, <<"name", "n">>, <<"checked", "checked">> >>)}

\* the action and method attributes of the forms submitted
SubmitAttrs ==
    {a \o m : a \in {<<>>, << <<"action", "http://h/p">> >>,
                     << <<"action", "http://h/p?old=1">> >>,
                     << <<"action", "http://h/p?old=1#f">> >>},
              m \in {<<>>, << <<"method", "post">> >>, << <<"method", "get">> >>}}

SubmitInit ==
    /\ \E attrs \in SubmitAttrs :
       \E kinds \in UNION {[1..n -> SubmitKinds] : n \in 0..MaxInputs} :
          heap = AddInputs(<<HtmlElement("form", DictOf(attrs), "D1")>>, kinds)
    /\ element_stack = <<>>
    /\ format_stack = <<>>
    /\ raised = ""
    /\ result = None
    /\ phase = "submit"
    /\ log = <<>>
    /\ consumed = <<>>

Submit ==
    /\ phase = "submit" /\ log = <<>>
    /\ Got(Value(submit(heap, 1)), <<"submit">>)

SubmitNext == Submit

SubmitSpec == SubmitInit /\ [][SubmitNext]_vars

\* C24: a GET submission requests the action URL with its query replaced by
\* the urlencoded form data, whatever query the action had and whatever the
\* form data are, the empty list included
C24_QueryReplaced ==
    (phase = "submit" /\ log # <<>> /\ form_method(heap, 1) = "GET") =>
        /\ result.url.loc = Url(form_action(heap, 1)).loc
        /\ result.url.query = urlencode(get_formdata(heap, 1))

(***************************************************************************)
(* Attributes: construction, set and the property setters of one input.    *)
(***************************************************************************)
MaxAttrs == 2

AttrKeys == {"id", "ID", "name", "Name", "value", "VALUE", "U+AB70", "U+13A0"}

AttrValues == {"b", "c"}

\* HtmlElement.__init__: the items of the attribute map, in their order
Construct(tag, attrib) == MergeAttrs(HtmlElement(tag, NoAttrs, None), attrib)

\* the attribute maps an element is constructed with, as lists of items
AttrMaps ==
    {a \in UNION {[1..n -> AttrKeys \X {"a"}] : n \in 0..MaxAttrs} :
        \A i, j \in DOMAIN a : a[i][1] = a[j][1] => i = j}

\* HtmlInputElement.enabled (setter)
set_enabled(el, is_enabled) ==
    IF is_enabled
    THEN (IF Get(el, "disabled") # None THEN DelAttr(el, "disabled") ELSE el)
    ELSE SetAttr(el, "disabled", "disabled")

\* HtmlInputElement.checked (setter)
set_checked(el, is_checked) ==
    IF type_of(el) \notin {"checkbox", "radio"} THEN [el |-> el, raised |-> "UnsupportedFormError"]
    ELSE IF is_checked THEN [el |-> SetAttr(el, "checked", "checked"), raised |-> ""]
    ELSE IF Get(el, "checked") # None THEN [el |-> DelAttr(el, "checked"), raised |-> ""]
    ELSE [el |-> el, raised |-> ""]

AttrInit ==
    /\ \E a \in AttrMaps, t \in {<<>>, << <<"type", "checkbox">> >>} :
          heap = <<Construct("input", t \o a)>>
    /\ element_stack = <<>>
    /\ format_stack = <<>>
    /\ raised = ""
    /\ result = None
    /\ phase = "attr"
    /\ log = <<>>
    /\ consumed = <<>>

\* one call on the element; the log keeps the last call only
Called(el, exc, call) ==
    /\ phase = "attr"
    /\ heap' = <<el>>
    /\ raised' = exc
    /\ log' = <<call>>
    /\ UNCHANGED <<element_stack, format_stack, result, phase, consumed>>

Set(key, val) == Called(SetAttr(heap[1], key, val), "", <<"set", key, val>>)

SetId(val) == Called(SetAttr(heap[1], "id", val), "", <<"id", val>>)

SetName(val) == Called(SetAttr(heap[1], "name", val), "", <<"name", val>>)

SetValue(val) == Called(SetAttr(heap[1], "value", val), "", <<"value", val>>)

SetEnabled(is_enabled) == Called(set_enabled(heap[1], is_enabled), "", <<"enabled", is_enabled>>)

SetChecked(is_checked) ==
    LET out == set_checked(heap[1], is_checked)
    IN  Called(out.el, out.raised, <<"checked", is_checked>>)

AttrNext ==
    \/ \E key \in AttrKeys, val \in AttrValues : Set(key, val)
    \/ \E val \in AttrValues : SetId(val)
    \/ \E val \in AttrValues : SetName(val)
    \/ \E val \in AttrValues : SetValue(val)
    \/ \E is_enabled \in BOOLEAN : SetEnabled(is_enabled)
    \/ \E is_checked \in BOOLEAN : SetChecked(is_checked)

AttrSpec == AttrInit /\ [][AttrNext]_vars

\* str.lower() on the attribute names
Lower(k) ==
    CASE k = "ID" -> "id"
      [] k = "Name" -> "name"
      [] k = "VALUE" -> "value"
      [] k = "U+13A0" -> "U+AB70"
      [] OTHER -> k

\* the names made of ASCII letters
AsciiKeys == AttrKeys \ {"U+AB70", "U+13A0"}

\* C25 (as stated): every stored attribute key is lowercase, and get returns
\* the same value for every letter-case variant of a key.
C25_Lowercase ==
    phase = "attr" =>
        /\ \A k \in DOMAIN heap[1].attrib : Lower(k) = k
        /\ \A k1, k2 \in AttrKeys :
              Lower(k1) = Lower(k2) => Get(heap[1], k1) = Get(heap[1], k2)

\* C25 (amended): every stored attribute key is its own case folding, which
\* is lowercase for a key of ASCII letters, and get returns the same value for
\* every letter-case variant of a key.
C25_Casefolded ==
    phase = "attr" =>
        /\ \A k \in DOMAIN heap[1].attrib :
              Casefold(k) = k /\ (k \in AsciiKeys \cup {"type", "disabled", "checked"} => Lower(k) = k)
        /\ \A k1, k2 \in AttrKeys :
              Lower(k1) = Lower(k2) => Get(heap[1], k1) = Get(heap[1], k2)

\* an element constructed with "ID" and then given "Name" by set holds both
\* under their lowercase keys
C25_Witness ==
    /\ phase = "attr" /\ log # <<>> /\ log[1][1] = "set" /\ log[1][2] = "Name"
    /\ {"id", "name"} \subseteq DOMAIN heap[1].attrib
    /\ Get(heap[1], "ID") = "a"
    /\ Get(heap[1], "name") = Get(heap[1], "Name")

(***************************************************************************)
(* Scopes: table cells and rows, templates, lists, blocks and one          *)
(* formatting tag, fed as start and end tags.                              *)
(***************************************************************************)
MaxScopeTokens == 4

ScopeStartTags == {"table", "tr", "td", "template", "div", "p", "ul", "li", "b"}

ScopeEndTags == {"td", "div", "p", "li", "table", "html"}

ScopeNext ==
    \/ Len(log) < MaxScopeTokens /\ \E tag \in ScopeStartTags : StartTag(tag, <<>>)
    \/ Len(log) < MaxScopeTokens /\ \E tag \in ScopeEndTags : EndTag(tag)

ScopeSpec == ParserInit /\ [][ScopeNext]_vars

\* the place on the stack of the topmost open element with this tag, or 0
TopmostOpen(tag) ==
    IF \E i \in DOMAIN element_stack : heap[element_stack[i]].tag = tag
    THEN CHOOSE i \in DOMAIN element_stack :
            /\ heap[element_stack[i]].tag = tag
            /\ \A j \in (i + 1)..Len(element_stack) : heap[element_stack[j]].tag # tag
    ELSE 0

\* the stack after a start tag: the elements kept, then the new element
Pushed(kept) ==
    /\ Len(heap') = Len(heap) + 1
    /\ element_stack' = Append(kept, Len(heap'))

\* C26: a start tag of a table cell or row pops the stack down to and including
\* the topmost open element of the same tag exactly when, walking down from the
\* top, that element is met before any html, table or template element; when
\* it is not, nothing is popped before the new element is pushed
C26_TableScope ==
    [][\A tag \in {"td", "tr"} : Fed(<<"start", tag, <<>>>>) =>
          IF has_in_scope(Cur, tag, {"html", "table", "template"})
          THEN Pushed(SubSeq(element_stack, 1, TopmostOpen(tag) - 1))
          ELSE Pushed(element_stack)]_vars

(***************************************************************************)
(* C27: reconstruction of the active formatting elements.                  *)
(***************************************************************************)
RECURSIVE IsSubsequence(_, _)
IsSubsequence(a, b) ==
    IF a = <<>> THEN TRUE
    ELSE IF b = <<>> THEN FALSE
    ELSE IF Head(a) = Head(b) THEN IsSubsequence(Tail(a), Tail(b))
    ELSE IsSubsequence(a, Tail(b))

\* the tags of the open elements, bottom first
OpenTags == [i \in DOMAIN element_stack |-> heap[element_stack[i]].tag]

\* the number of leading entries of the formatting list that are open: the
\* longest prefix whose tags form a subsequence of the open tags
Matched ==
    CHOOSE k \in 0..Len(format_stack) :
        /\ IsSubsequence(SubSeq(FormatTags(format_stack), 1, k), OpenTags)
        /\ k < Len(format_stack) =>
              ~IsSubsequence(SubSeq(FormatTags(format_stack), 1, k + 1), OpenTags)

\* the step opens elements with these tags and attributes, each a fresh last
\* child of the top before it, and changes nothing else on the stack
Reopened(entries) ==
    /\ Len(heap') = Len(heap) + Len(entries)
    /\ element_stack' = element_stack \o [i \in DOMAIN entries |-> Len(heap) + i]
    /\ \A i \in DOMAIN entries :
          /\ heap'[Len(heap) + i].tag = entries[i][1]
          /\ heap'[Len(heap) + i].attrib = entries[i][2]
          /\ LET parent == IF i = 1 THEN Last(element_stack) ELSE Len(heap) + i - 1
                 before == IF i = 1 THEN heap[parent].children ELSE <<>>
             IN  heap'[parent].children = Append(before, Len(heap) + i)

Unmatched == SubSeq(format_stack, Matched + 1, Len(format_stack))

C27_State ==
    (phase = "feed" /\ raised = "" /\ log # <<>>
        /\ (LastToken[1] = "data" \/ (LastToken[1] = "start" /\ LastToken[2] \in formatting_els)))
    => IsSubsequence(FormatTags(format_stack), OpenTags)

C27_Data ==
    (\E c \in Range(DataChars) : Fed(<<"data", <<c>>>>)) =>
        /\ Reopened(Unmatched)
        /\ format_stack' = format_stack

C27_Start ==
    \A tag \in FmtTags \cap formatting_els : Fed(<<"start", tag, <<>>>>) =>
        /\ Reopened(Append(Unmatched, <<tag, <<>>>>))
        /\ format_stack' = Append(format_stack, <<tag, <<>>>>)

\* C27: after character data is appended or a formatting start tag is pushed,
\* the tags of the active formatting list form, in order, a subsequence of the
\* tags of the open elements; reconstruction reopens exactly the entries that
\* were not matched, each as a fresh child of the top before it, in list
\* order, and leaves the formatting list as it was
C27_Reconstruction == [](C27_State) /\ [][C27_Data /\ C27_Start]_vars

\* character data arrives while two formatters, closed by the end of their
\* paragraph, are still active: both are reopened
C27_Witness ==
    /\ phase = "feed" /\ Len(log) = 5 /\ LastToken[1] = "data"
    /\ log[4] = <<"end", "p">>
    /\ FormatTags(format_stack) = <<"b", "i">>
    /\ Cardinality({e \in DOMAIN heap : heap[e].tag \in formatting_els}) = 4
    /\ Len(element_stack) = 3

(***************************************************************************)
(* C28: the character data of the tokens is the text of the tree.          *)
(***************************************************************************)
\* the character data consumed so far, token after token
ConsumedData == Concat([i \in DOMAIN consumed |-> consumed[i].data])

\* C28: before finish() trims, the text and tail strings of the tree,
\* concatenated in document order, are the character-data tokens concatenated
\* in input order: implicit closes, ignored end tags and the detach, wrap and
\* re-attach steps of misnesting recovery drop, duplicate and reorder nothing
C28_TextPreserved ==
    (phase = "feed" /\ raised = "") => Concat(itertext(heap, 1)) = ConsumedData

\* text inside <b>, text in a <div> opened inside it, then </b> across the
\* <div>: the <div> was detached, wrapped and re-attached
C28_Witness ==
    /\ phase = "feed" /\ Len(log) = 5
    /\ log[1] = <<"start", "b", <<>>>> /\ log[2][1] = "data"
    /\ log[3] = <<"start", "div", <<>>>> /\ log[4][1] = "data"
    /\ log[5] = <<"end", "b">>
    /\ Len(itertext(heap, 1)) = 2

(***************************************************************************)
(* C29: the end tag of a formatting element.                               *)
(***************************************************************************)
\* the step removes the last entry tagged X from the formatting list
LastRemoved(X) ==
    \E index \in DOMAIN format_stack :
        /\ format_stack[index][1] = X
        /\ \A j \in (index + 1)..Len(format_stack) : format_stack[j][1] # X
        /\ format_stack' = SubSeq(format_stack, 1, index - 1)
                             \o SubSeq(format_stack, index + 1, Len(format_stack))

\* C29: the end tag of a formatting tag X that is not in the active formatting
\* list changes neither the open stack nor the list nor the tree; when X is in
\* the list but no element tagged X is open, the last X leaves the list and the
\* open stack and the tree stay as they were; in every other case exactly one
\* entry, the last X, leaves the list
C29_FormattingEnd ==
    [][\A X \in FmtTags \cap formatting_els : Fed(<<"end", X>>) =>
          IF X \notin Range(FormatTags(format_stack))
          THEN UNCHANGED <<heap, element_stack, format_stack>>
          ELSE IF X \notin Range(OpenTags)
          THEN LastRemoved(X) /\ UNCHANGED <<heap, element_stack>>
          ELSE LastRemoved(X)]_vars

\* </b> arrives after the end of the paragraph has closed the b element, a
\* second b being active before it: the list loses its last b only
C29_Witness ==
    /\ Len(log) = 5
    /\ log[1] = <<"start", "b", <<>>>> /\ log[2] = <<"start", "p", <<>>>>
    /\ log[3] = <<"start", "i", <<>>>> /\ log[4] = <<"end", "p">>
    /\ log[5] = <<"end", "i">>
    /\ FormatTags(format_stack) = <<"b">>
    /\ Len(element_stack) = 2

(***************************************************************************)
(* C30: the end tag of a non-formatting element.                           *)
(***************************************************************************)
\* walking down from the stack top, an open element tagged T is met before any
\* element whose tag is in bounds
MetFirst(T, bounds) ==
    \E i \in DOMAIN element_stack :
        /\ heap[element_stack[i]].tag = T
        /\ \A j \in (i + 1)..Len(element_stack) : heap[element_stack[j]].tag \notin bounds

\* the end tag leaves the stack and the tree alone when no open T is met before
\* a table boundary, and pops down to and including the topmost open T otherwise
ClosesInScope(T) ==
    Fed(<<"end", T>>) =>
        /\ IF MetFirst(T, default_scope_els)
           THEN /\ element_stack' = SubSeq(element_stack, 1, TopmostOpen(T) - 1)
                /\ heap' = heap
           ELSE UNCHANGED <<heap, element_stack>>
        /\ format_stack' = format_stack

\* C30 (as stated): every non-formatting end tag closes across no table
\* boundary: the open stack and the tree are unchanged when an applet, caption,
\* table, marquee, object or template is met before any open T, the stack is
\* popped down to and including the topmost open T otherwise, and the active
\* formatting list is unchanged
C30_AnyTag == [][\A T \in ScopeEndTags \ formatting_els : ClosesInScope(T)]_vars

\* C30 (amended): the same, for every non-formatting end tag other than
\* html, p, li, dd and dt
C30_OtherTags ==
    [][\A T \in ScopeEndTags \ (formatting_els \cup {"html", "p", "li", "dd", "dt"}) :
          ClosesInScope(T)]_vars

\* </div> arrives with a table open inside the div, and a formatter active:
\* nothing is closed
C30_Witness ==
    /\ Len(log) = 4
    /\ log[1] = <<"start", "b", <<>>>> /\ log[2] = <<"start", "div", <<>>>>
    /\ log[3] = <<"start", "table", <<>>>> /\ log[4] = <<"end", "div">>
    /\ Len(element_stack) = 4
    /\ FormatTags(format_stack) = <<"b">>

(***************************************************************************)
(* Lists: items and their containers, a block and a formatting tag.        *)
(***************************************************************************)
MaxListTokens == 5

ListStartTags == {"ul", "li", "dd", "div", "b"}

ListEndTags == {"ul", "li", "div", "b"}

ListNext ==
    \/ Len(log) < MaxListTokens /\ \E tag \in ListStartTags : StartTag(tag, <<>>)
    \/ Len(log) < MaxListTokens /\ \E tag \in ListEndTags : EndTag(tag)

ListSpec == ParserInit /\ [][ListNext]_vars

\* walking up from e, an element tagged tag is met before any dl, ol or ul
RECURSIVE NestedIn(_, _)
NestedIn(e, tag) ==
    IF ParentsOf(e) = {} THEN FALSE
    ELSE LET x == CHOOSE y \in ParentsOf(e) : TRUE
         IN  IF heap[x].tag = tag THEN TRUE
             ELSE IF heap[x].tag \in {"dl", "ol", "ul"} THEN FALSE
             ELSE NestedIn(x, tag)

\* C31: no li, dd or dt element of the tree has a proper ancestor with the same
\* tag unless a dl, ol or ul element lies between the two, also after elements
\* were detached and re-attached by misnesting recovery
C31_ItemsNotNested ==
    phase = "feed" =>
        \A e \in DOMAIN heap : heap[e].tag \in {"li", "dd", "dt"} => ~NestedIn(e, heap[e].tag)

\* a list whose second item was opened while the first, holding an open block,
\* was still open: the items are siblings
C31_Witness ==
    /\ phase = "feed" /\ Len(log) = 4
    /\ log[1] = <<"start", "ul", <<>>>> /\ log[2] = <<"start", "li", <<>>>>
    /\ log[3] = <<"start", "div", <<>>>> /\ log[4] = <<"start", "li", <<>>>>
    /\ Len(heap[2].children) = 2

(***************************************************************************)
(* Paragraphs: p and the tags that close it, boundaries of the block       *)
(* scope, a list item and a formatting tag.                                *)
(***************************************************************************)
MaxParaTokens == 5

ParaStartTags == {"p", "div", "table", "li", "b"}

ParaEndTags == {"p", "div", "b"}

ParaNext ==
    \/ Len(log) < MaxParaTokens /\ \E tag \in ParaStartTags : StartTag(tag, <<>>)
    \/ Len(log) < MaxParaTokens /\ \E tag \in ParaEndTags : EndTag(tag)

ParaSpec == ParserInit /\ [][ParaNext]_vars

\* after the step, the parent of the stack top has an open p in block scope
ParagraphAbove ==
    \E i \in 1..(Len(element_stack') - 1) :
        /\ heap'[element_stack'[i]].tag = "p"
        /\ \A j \in (i + 1)..(Len(element_stack') - 1) :
              heap'[element_stack'[j]].tag \notin block_scope_els

\* C32: after a start tag of the block-opening set the new element has no open
\* p ancestor in block scope: a p that was in block scope has been popped with
\* everything above it, a p behind a boundary of the block scope stays open
C32_ParagraphClosed ==
    [][\A tag \in ParaStartTags \cap block_openers : Fed(<<"start", tag, <<>>>>) =>
          /\ IF MetFirst("p", block_scope_els)
             THEN Pushed(SubSeq(element_stack, 1, TopmostOpen("p") - 1))
             ELSE Pushed(element_stack)
          /\ heap'[Last(element_stack')].tag = tag
          /\ ~ParagraphAbove]_vars

\* a div arrives while a p holding an open item and a formatter is open, the p
\* itself lying inside a table that lies inside another p: the inner p is
\* closed, the outer p stays open
C32_Witness ==
    /\ Len(log) = 5
    /\ log[1] = <<"start", "p", <<>>>> /\ log[2] = <<"start", "table", <<>>>>
    /\ log[3] = <<"start", "p", <<>>>> /\ log[4] = <<"start", "li", <<>>>>
    /\ log[5] = <<"start", "div", <<>>>>
    /\ Len(element_stack) = 4
    /\ heap[Last(element_stack)].tag = "div"

\* C33: an end tag </p> processed while no p is in block scope appends exactly
\* one new empty p element as the last child of the stack top and leaves the
\* open stack and the active formatting list as they were: no open element is
\* closed by it
C33_StrayParagraph ==
    [][(Fed(<<"end", "p">>) /\ ~MetFirst("p", block_scope_els)) =>
          /\ element_stack' = element_stack
          /\ format_stack' = format_stack
          /\ Len(heap') = Len(heap) + 1
          /\ heap'[Len(heap')] = HtmlElement("p", NoAttrs, None)
          /\ \A e \in DOMAIN heap :
                heap'[e] = IF e = Last(element_stack)
                           THEN [heap[e] EXCEPT !.children = Append(@, Len(heap'))]
                           ELSE heap[e]]_vars

\* </p> arrives inside a div opened inside a p, a formatter being open in the
\* div: the outer p is behind the div and stays open
C33_Witness ==
    /\ Len(log) = 5
    /\ log[1] = <<"start", "p", <<>>>> /\ log[2] = <<"start", "table", <<>>>>
    /\ log[3] = <<"start", "div", <<>>>> /\ log[4] = <<"start", "b", <<>>>>
    /\ log[5] = <<"end", "p">>
    /\ element_stack = <<1, 2, 3, 4, 5>>
    /\ heap[5].children = <<6>> /\ heap[6].tag = "p"

(***************************************************************************)
(* C34: set_field changes nothing when it raises.                          *)
(***************************************************************************)
\* the step is a call of set_field that raises
SetFieldRaises ==
    /\ phase = "form" /\ Len(log') = Len(log) + 1
    /\ Last(log')[1] = "set_field"
    /\ raised' # ""

\* C34: whenever set_field(name, value) raises InputNotFoundError or
\* UnsupportedFormError, no attribute, text or selected or checked state of any
\* element of the form has changed
C34_Atomic ==
    [][SetFieldRaises =>
          /\ raised' \in {"InputNotFoundError", "UnsupportedFormError"}
          /\ heap' = heap]_vars

\* set_field has raised on a group of two radio buttons, one of them checked,
\* none of them with the value asked for: the button is still checked
C34_Witness ==
    /\ phase = "form" /\ raised = "UnsupportedFormError"
    /\ Len(log) = 1 /\ log[1][1] = "set_field" /\ log[1][2] = "n"
    /\ Len(heap) = 3
    /\ \A e \in {2, 3} : type_of(heap[e]) = "radio" /\ Get(heap[e], "value") # log[1][3]
    /\ \E e \in {2, 3} : Get(heap[e], "checked") # None

(***************************************************************************)
(* The Referer header across redirects.  A request is logged with the      *)
(* budget, the response, the URL, the Referer of additional_headers and    *)
(* the Referer of the browser's default_headers (None when absent).        *)
(***************************************************************************)
StartUrls == {"http://h/s", "http://h/s#f"}

Referers == {None, "http://r/"}

DefaultReferers == {None, "http://d/"}

\* urldefrag(url).url
urldefrag(url) ==
    CASE url = "http://h/s#f" -> "http://h/s"
      [] OTHER -> url

\* urljoin(self.baseuri, url) for the redirect targets of the model
urljoin_path(base, url) ==
    CASE url = "/a" -> "http://h/a"
      [] url = "/n" -> "http://h/n"
      [] url = "/m" -> "http://h/m"
      [] OTHER -> url

\* the Referer of additional_headers when Browser.open has looked at the
\* response: a Refresh header or a meta refresh of a 200 response replaces it
additional_referer(referer, r, url) ==
    IF r.status = 200
       /\ \/ r.refresh # None /\ RefreshUrl(r.refresh) # None
          \/ MetaRedirect(None, r.body.tags) # None
    THEN urldefrag(url)
    ELSE referer

\* _DocumentBackend.open: the Referer of the headers it passes on
backend_referer(referer, url) == IF referer # None THEN referer ELSE urldefrag(url)

\* request.add_header for default_headers, then for additional_headers: the
\* Referer header the request carries
request_referer(default, referer) == IF referer # None THEN referer ELSE default

\* browser.open(url, additional_headers=..., maximum_redirects=n)
RefererOpen(n, r, url, referer, default) ==
    /\ phase = "browser" /\ log = <<>>
    /\ Request(browser_open(n, r), <<"open", n, r, url, referer, default>>)

\* page.open(redirect_to, additional_headers=additional_headers,
\* maximum_redirects=maximum_redirects-1)
RefererFollow(r) ==
    /\ phase = "browser" /\ log # <<>>
    /\ LET req == Last(log)
           referer == backend_referer(additional_referer(req[5], req[3], req[4]), req[4])
       IN  Request(browser_open(req[2] - 1, r),
                   <<"open", req[2] - 1, r, urljoin_path(req[4], RedirectTo(req[3])),
                     referer, req[6]>>)

RefererNext ==
    \/ \E n \in 0..MaxRedirects, r \in Responses, url \in StartUrls,
          referer \in Referers, default \in DefaultReferers :
            RefererOpen(n, r, url, referer, default)
    \/ \E r \in Responses : RefererFollow(r)

RefererSpec == BrowserInit /\ [][RefererNext]_vars

\* the Referer header request i carries
Carried(i) == request_referer(log[i][6], log[i][5])

\* C35: when a request is answered with 301, 302, 303 or 307 and a Location
\* header, the follow-up request carries the Referer header the redirected
\* request had, and none if it had none; when the redirect comes from a
\* Refresh header or a meta refresh of a 200 response, the follow-up request
\* carries the URL of the redirecting page with its fragment stripped
C35_Referer ==
    phase \in {"browser", "done"} =>
        \A i \in 1..(Len(log) - 1) :
            IF log[i][3].status \in {301, 302, 303, 307}
            THEN Carried(i + 1) = Carried(i)
            ELSE Carried(i + 1) = urldefrag(log[i][4])

(***************************************************************************)
(* Void elements: br and img among a block, a paragraph, a formatting tag  *)
(* and character data.                                                     *)
(***************************************************************************)
MaxVoidTokens == 5

VoidStartTags == {"br", "img", "div", "p", "b"}

VoidEndTags == {"br", "div", "p", "b"}

VoidNext ==
    \/ Len(log) < MaxVoidTokens /\ \E tag \in VoidStartTags : StartTag(tag, <<>>)
    \/ Len(log) < MaxVoidTokens /\ \E tag \in VoidEndTags : EndTag(tag)
    \/ Len(log) < MaxVoidTokens /\ Data(FreshChar)

VoidSpec == ParserInit /\ [][VoidNext]_vars

C36_State ==
    phase = "feed" =>
        /\ \A e \in DOMAIN heap :
              heap[e].tag \in void_els => heap[e].children = <<>> /\ heap[e].text = <<>>
        /\ \A i \in DOMAIN element_stack : heap[element_stack[i]].tag \notin void_els

C36_Start ==
    \A tag \in VoidStartTags \cap void_els : Fed(<<"start", tag, <<>>>>) =>
        /\ Len(heap') = Len(heap) + 1
        /\ heap'[Len(heap')].tag = tag
        /\ element_stack' = element_stack
        /\ heap'[Last(element_stack)].children =
              Append(heap[Last(element_stack)].children, Len(heap'))

\* C36: after any token sequence every void element has no children and empty
\* text, no void element is on the open stack between two tokens, and the
\* start tag of a void element pops exactly the element it has just pushed
C36_Void == [](C36_State) /\ [][C36_Start]_vars

\* character data after <br> inside a formatter, an end tag </br> and an <img>
C36_Witness ==
    /\ phase = "feed" /\ Len(log) = 5
    /\ log[1] = <<"start", "b", <<>>>> /\ log[2] = <<"start", "br", <<>>>>
    /\ log[3][1] = "data" /\ log[4] = <<"end", "br">>
    /\ log[5] = <<"start", "img", <<>>>>
    /\ heap[3].tail # <<>>
    /\ element_stack = <<1, 2>>

(***************************************************************************)
(* The meta scan: documents without byte-order mark, of up to MaxScanTags  *)
(* start tags, read without a hint.                                        *)
(***************************************************************************)
MaxScanTags == 3

ScanHtmls ==
    [bom : {None}, xml : XmlEncodings,
     tags : UNION {[1..n -> CharsetTags] : n \in 0..MaxScanTags}]

ScanNext == \E html \in ScanHtmls : DetectCharset(html, None)

ScanSpec == CharsetInit /\ [][ScanNext]_vars

\* the charset a start tag names: the charset attribute of a meta, or the
\* charset= of the content of a meta with http-equiv=content-type
Candidate(tag) ==
    LET ad == DictOf(tag[2])
    IN  IF tag[1] # "meta" THEN None
        ELSE IF "charset" \in DOMAIN ad THEN ad["charset"]
        ELSE IF "http-equiv" \in DOMAIN ad /\ "content" \in DOMAIN ad
                /\ ad["http-equiv"] = "Content-Type" /\ ad["content"] # None
        THEN ContentCharset(ad["content"])
        ELSE None

\* the tag names a charset that resolves in the registry
Valid(tag) == Candidate(tag) # None /\ Lookup(Candidate(tag)).raised = ""

\* C37: without hint and byte-order mark the result is decided by the first
\* meta whose charset resolves in the registry: metas with unresolvable labels
\* before it are skipped, metas after it are ignored, and a first valid
\* candidate that names a UTF-16 variant yields utf-8
C37_FirstValid ==
    (Detected /\ \E i \in DOMAIN Html.tags : Valid(Html.tags[i])) =>
        LET first == CHOOSE i \in DOMAIN Html.tags :
                        Valid(Html.tags[i]) /\ \A j \in 1..(i - 1) : ~Valid(Html.tags[j])
            name == Lookup(Candidate(Html.tags[first])).name
        IN  /\ raised = ""
            /\ result = IF IsUtf16(name) THEN "utf-8"
                        ELSE IF name \in {"iso8859-1", "ascii"} THEN "cp1252"
                        ELSE name

(***************************************************************************)
(* C38: the open stack is a path of last children, the tree is a tree.     *)
(***************************************************************************)
\* the elements of the subtree of e
RECURSIVE Subtree(_)
Subtree(e) == {e} \cup UNION {Subtree(c) : c \in Range(heap[e].children)}

\* C38: between two tokens every element of the open stack above the root is
\* the last child of the stack element directly below it, and every element
\* reachable from the root has exactly one parent and occurs once in its child
\* list: the detach, wrap and re-attach steps share no element between the
\* fresh formatter and the element it was taken from
C38_LastChildren ==
    (phase = "feed" /\ raised = "") =>
        /\ \A i \in 2..Len(element_stack) :
              /\ heap[element_stack[i - 1]].children # <<>>
              /\ Last(heap[element_stack[i - 1]].children) = element_stack[i]
        /\ \A e \in Subtree(element_stack[1]) \ {element_stack[1]} :
              Cardinality(Places(e)) = 1
        /\ Places(element_stack[1]) = {}

\* </b> arrives across a div that holds a paragraph and an open formatter i:
\* the div was detached, its content wrapped in a fresh b, and re-attached
C38_Witness ==
    /\ phase = "feed" /\ Len(log) = 5
    /\ log[1] = <<"start", "b", <<>>>> /\ log[2] = <<"start", "div", <<>>>>
    /\ log[3] = <<"start", "p", <<>>>> /\ log[4] = <<"start", "i", <<>>>>
    /\ log[5] = <<"end", "b">>
    /\ Cardinality(Subtree(1)) > 5

====
